---- MODULE Spec2Model ----
(***************************************************************************)
(* docker-registry-explorer: the registry client (src/src/registry.rs),    *)
(* the pagination of a tag list (src/src/common.rs) and the image page     *)
(* service (src/src/image.rs), as a state machine.                         *)
(*                                                                         *)
(* Strings are TLA+ strings (format! is \o, str::contains is a substring   *)
(* search).  A serde_json::Value is a record tagged by kind; an object is  *)
(* the sequence of its <<key, value>> members.  A chrono DateTime<Utc> is  *)
(* its number of seconds since 1970-01-01T00:00:00Z.                       *)
(***************************************************************************)
EXTENDS Integers, Sequences, FiniteSets, TLC

VARIABLES
    overflow_checks,  \* build profile: arithmetic overflow panics (debug) or wraps (release)
    req,              \* the request being served by image::service::get_image_info
    tasks             \* the Client::manifest futures in flight, in spawn order

vars == <<overflow_checks, req, tasks>>

----------------------------------------------------------------------------
(* Option<T> and Result<T, E> *)

None == [some |-> FALSE]
Some(x) == [some |-> TRUE, v |-> x]
Ok(x) == [ok |-> TRUE, v |-> x]
Err(e) == [ok |-> FALSE, err |-> e]

\* Result::ok
ResultOk(r) == IF r.ok THEN Some(r.v) ELSE None

----------------------------------------------------------------------------
(* str *)

Char(s, i) == SubSeq(s, i, i)

\* str::contains(&str)
Contains(hay, needle) ==
    \E i \in 1..(Len(hay) - Len(needle) + 1) : SubSeq(hay, i, i + Len(needle) - 1) = needle

----------------------------------------------------------------------------
(* serde_json::Value *)

JNull == [kind |-> "null"]
JNum(n) == [kind |-> "number", n |-> n]
JStr(s) == [kind |-> "string", s |-> s]
JArr(items) == [kind |-> "array", items |-> items]
JObj(members) == [kind |-> "object", members |-> members]

\* Value::get(&str): the member of an object, None for anything else
JsonGet(j, key) ==
    IF j.kind = "object" /\ \E i \in 1..Len(j.members) : j.members[i][1] = key
    THEN Some(j.members[CHOOSE i \in 1..Len(j.members) :
                            /\ j.members[i][1] = key
                            /\ \A k \in (i + 1)..Len(j.members) : j.members[k][1] # key][2])
    ELSE None

\* Value::as_str
AsStr(j) == IF j.kind = "string" THEN Some(j.s) ELSE None

\* Value::as_array
AsArray(j) == IF j.kind = "array" THEN Some(j.items) ELSE None

----------------------------------------------------------------------------
(* chrono: DateTime::parse_from_rfc3339 and DateTime::to_utc.              *)
(* The texts handled are date-times of the shape                           *)
(* YYYY-MM-DDTHH:MM:SS followed by Z or by +HH:MM / -HH:MM (no fractional  *)
(* seconds); any other text is rejected.                                   *)

Digits == "0123456789"

IsDigit(c) == \E d \in 0..9 : Char(Digits, d + 1) = c

DigitOf(c) == CHOOSE d \in 0..9 : Char(Digits, d + 1) = c

AllDigits(s, from, to) == \A i \in from..to : IsDigit(Char(s, i))

RECURSIVE Number(_, _, _)
Number(s, from, to) ==
    IF from > to THEN 0 ELSE Number(s, from, to - 1) * 10 + DigitOf(Char(s, to))

IsLeapYear(y) == (y % 4 = 0 /\ y % 100 # 0) \/ y % 400 = 0

DaysInMonth(y, m) ==
    IF m = 2 THEN (IF IsLeapYear(y) THEN 29 ELSE 28)
    ELSE IF m \in {4, 6, 9, 11} THEN 30 ELSE 31

\* days from 1970-01-01 to the civil date y-m-d (proleptic Gregorian)
DaysFromCivil(y, m, d) ==
    LET yy == IF m <= 2 THEN y - 1 ELSE y
        era == yy \div 400
        yoe == yy - era * 400
        mp == IF m > 2 THEN m - 3 ELSE m + 9
        doy == (153 * mp + 2) \div 5 + d - 1
        doe == yoe * 365 + yoe \div 4 - yoe \div 100 + doy
    IN  era * 146097 + doe - 719468

\* the date-time part, positions 1..19
DateTimeShape(s) ==
    /\ AllDigits(s, 1, 4) /\ Char(s, 5) = "-"
    /\ AllDigits(s, 6, 7) /\ Char(s, 8) = "-"
    /\ AllDigits(s, 9, 10) /\ Char(s, 11) = "T"
    /\ AllDigits(s, 12, 13) /\ Char(s, 14) = ":"
    /\ AllDigits(s, 15, 16) /\ Char(s, 17) = ":"
    /\ AllDigits(s, 18, 19)

DateTimeInRange(s) ==
    /\ Number(s, 6, 7) \in 1..12
    /\ Number(s, 9, 10) \in 1..DaysInMonth(Number(s, 1, 4), Number(s, 6, 7))
    /\ Number(s, 12, 13) \in 0..23
    /\ Number(s, 15, 16) \in 0..59
    /\ Number(s, 18, 19) \in 0..59

\* the offset part, from position 20
OffsetShape(s) ==
    \/ Len(s) = 20 /\ Char(s, 20) = "Z"
    \/ /\ Len(s) = 25
       /\ Char(s, 20) \in {"+", "-"}
       /\ AllDigits(s, 21, 22) /\ Char(s, 23) = ":" /\ AllDigits(s, 24, 25)
       /\ Number(s, 21, 22) \in 0..23
       /\ Number(s, 24, 25) \in 0..59

\* seconds east of UTC
OffsetSeconds(s) ==
    IF Len(s) = 20 THEN 0
    ELSE (IF Char(s, 20) = "-" THEN -1 ELSE 1)
             * (Number(s, 21, 22) * 3600 + Number(s, 24, 25) * 60)

\* the local date-time as seconds since 1970-01-01T00:00:00 local
LocalSeconds(s) ==
    DaysFromCivil(Number(s, 1, 4), Number(s, 6, 7), Number(s, 9, 10)) * 86400
        + Number(s, 12, 13) * 3600 + Number(s, 15, 16) * 60 + Number(s, 18, 19)

\* chrono::DateTime::parse_from_rfc3339 -> Result<DateTime<FixedOffset>, ParseError>
ParseFromRfc3339(s) ==
    IF Len(s) >= 20 /\ DateTimeShape(s) /\ OffsetShape(s) /\ DateTimeInRange(s)
    THEN Ok([local |-> LocalSeconds(s), offset |-> OffsetSeconds(s)])
    ELSE Err("ParseError")

\* mutant of ToUtc: the local date-time is kept, the offset is not applied
ToUtcKeepsLocal(dt) == dt.local

\* DateTime<FixedOffset>::to_utc -> DateTime<Utc>
ToUtc(dt) == dt.local - dt.offset

\* the parse of a config blob's created field (registry.rs 136 and 252)
CreatedOf(text) ==
    LET parsed == ParseFromRfc3339(text)
    IN  IF parsed.ok THEN Ok(ToUtc(parsed.v)) ELSE Err("created: " \o parsed.err)

\* Ord for Option<DateTime<Utc>>: None is less than every Some
OptionLess(a, b) ==
    IF ~a.some THEN b.some
    ELSE b.some /\ a.v < b.v

----------------------------------------------------------------------------
(* HTTP responses as reqwest shows them *)

HeaderAbsent == [present |-> FALSE]
HeaderText(s) == [present |-> TRUE, text |-> TRUE, value |-> s]
\* a header whose bytes are not visible ASCII: HeaderValue::to_str fails
HeaderOpaque == [present |-> TRUE, text |-> FALSE]

BodyJson(j) == [kind |-> "json", json |-> j]
\* a body that is not JSON
BodyText == [kind |-> "text"]
\* the connection breaks while the body is read
BodyAborted == [kind |-> "aborted"]

Response(status, content_type, digest, body) ==
    [status |-> status, content_type |-> content_type,
     docker_content_digest |-> digest, body |-> body]

\* Response::json::<serde_json::Value>
ResponseJson(resp) ==
    IF resp.body.kind = "json" THEN Ok(resp.body.json)
    ELSE Err("body: " \o resp.body.kind)

\* registry.rs 86-91
ContentType(resp) ==
    IF resp.content_type.present /\ resp.content_type.text
    THEN resp.content_type.value
    ELSE ""

\* registry.rs 93-98
HeaderDigest(resp) ==
    IF ~resp.docker_content_digest.present
    THEN Err("docker-content-digest is missing from response")
    ELSE IF ~resp.docker_content_digest.text THEN Err("ToStrError")
    ELSE Ok(resp.docker_content_digest.value)

\* mutant of IsMultiArch: only a Docker manifest list is multi-arch
IsMultiArchManifestListOnly(content_type) == Contains(content_type, "manifest.list")

\* registry.rs 100-101
IsMultiArch(content_type) ==
    Contains(content_type, "manifest.list") \/ Contains(content_type, "image.index")

----------------------------------------------------------------------------
(* registry::dto, as serde's derived Deserialize reads them: a struct is   *)
(* read from a JSON object by field name (unknown members ignored) or from *)
(* a JSON array of exactly its fields, by position; a String field must be *)
(* a JSON string; an Option field is None when missing or null.            *)

StructShape(j, n) == j.kind = "object" \/ (j.kind = "array" /\ Len(j.items) = n)

StructField(j, name, pos) ==
    IF j.kind = "object" THEN JsonGet(j, name) ELSE Some(j.items[pos])

IsStringField(f) == f.some /\ f.v.kind = "string"

IsAbsentField(f) == ~f.some \/ f.v.kind = "null"

\* dto::ManifestBlob
DecodeManifestBlob(j) ==
    IF ~StructShape(j, 2) THEN Err("ManifestBlob: invalid type")
    ELSE LET architecture == StructField(j, "architecture", 1)
             created == StructField(j, "created", 2)
         IN  IF IsStringField(architecture) /\ IsStringField(created)
             THEN Ok([architecture |-> architecture.v.s, created |-> created.v.s])
             ELSE Err("ManifestBlob: missing or mistyped field")

\* dto::Platform
DecodePlatform(j) ==
    IF ~StructShape(j, 3) THEN Err("Platform: invalid type")
    ELSE LET architecture == StructField(j, "architecture", 1)
             os == StructField(j, "os", 2)
             variant == StructField(j, "variant", 3)
         IN  IF /\ IsStringField(architecture) /\ IsStringField(os)
                /\ (IsAbsentField(variant) \/ IsStringField(variant))
             THEN Ok([architecture |-> architecture.v.s,
                      os |-> os.v.s,
                      variant |-> IF IsStringField(variant) THEN Some(variant.v.s) ELSE None])
             ELSE Err("Platform: missing or mistyped field")

\* dto::ManifestPlatformEntry
DecodeManifestPlatformEntry(j) ==
    IF ~StructShape(j, 2) THEN Err("ManifestPlatformEntry: invalid type")
    ELSE LET digest == StructField(j, "digest", 1)
             platform == StructField(j, "platform", 2)
         IN  IF ~IsStringField(digest) THEN Err("ManifestPlatformEntry: digest")
             ELSE IF IsAbsentField(platform)
             THEN Ok([digest |-> digest.v.s, platform |-> None])
             ELSE IF DecodePlatform(platform.v).ok
             THEN Ok([digest |-> digest.v.s, platform |-> Some(DecodePlatform(platform.v).v)])
             ELSE Err("ManifestPlatformEntry: platform")

\* dto::ManifestListResponse
DecodeManifestListResponse(j) ==
    IF ~StructShape(j, 1) THEN Err("ManifestListResponse: invalid type")
    ELSE LET manifests == StructField(j, "manifests", 1)
         IN  IF ~(manifests.some /\ manifests.v.kind = "array")
             THEN Err("ManifestListResponse: manifests")
             ELSE LET items == manifests.v.items
                  IN  IF \A i \in 1..Len(items) : DecodeManifestPlatformEntry(items[i]).ok
                      THEN Ok([manifests |->
                                 [i \in 1..Len(items) |-> DecodeManifestPlatformEntry(items[i]).v]])
                      ELSE Err("ManifestListResponse: entry")

\* Response::json::<ManifestBlob>: the body must be JSON and decode
ResponseJsonManifestBlob(resp) ==
    IF ~ResponseJson(resp).ok THEN ResponseJson(resp)
    ELSE DecodeManifestBlob(ResponseJson(resp).v)

\* Response::json::<ManifestListResponse>
ResponseJsonManifestList(resp) ==
    IF ~ResponseJson(resp).ok THEN ResponseJson(resp)
    ELSE DecodeManifestListResponse(ResponseJson(resp).v)

\* dto::TagManifest
Nominal(digest, created, architecture) ==
    [variant |-> "Nominal", digest |-> digest, created |-> created,
     architecture |-> architecture]
MultiArch(digest, architectures, created) ==
    [variant |-> "MultiArch", digest |-> digest, architectures |-> architectures,
     created |-> created]
Error(digest) == [variant |-> "Error", digest |-> digest]

----------------------------------------------------------------------------
(* registry::api::Client: the pure parts of manifest() *)

\* registry.rs 120-127 and 237-243: json.get("config")?.get("digest")?.as_str()?
ConfigDigest(json) ==
    LET config == JsonGet(json, "config")
    IN  IF ~config.some THEN Err("config missing")
        ELSE LET digest == JsonGet(config.v, "digest")
             IN  IF ~digest.some THEN Err("digest missing")
                 ELSE IF ~AsStr(digest.v).some THEN Err("not a string")
                 ELSE Ok(AsStr(digest.v).v)

\* mutant of ErrorRevision: the last error of the array is read, not the first
ErrorRevisionOfLast(json) ==
    LET errors == JsonGet(json, "errors")
    IN  IF ~errors.some THEN Err("errors missing")
        ELSE IF ~AsArray(errors.v).some THEN Err("not an array")
        ELSE IF Len(AsArray(errors.v).v) = 0 THEN Err("empty array")
        ELSE LET detail == JsonGet(AsArray(errors.v).v[Len(AsArray(errors.v).v)], "detail")
             IN  IF ~detail.some THEN Err("detail missing")
                 ELSE LET revision == JsonGet(detail.v, "Revision")
                      IN  IF ~revision.some THEN Err("revision missing")
                          ELSE IF ~AsStr(revision.v).some THEN Err("not a string")
                          ELSE Ok(AsStr(revision.v).v)

\* registry.rs 144-157: errors[0].detail.Revision as a string
ErrorRevision(json) ==
    LET errors == JsonGet(json, "errors")
    IN  IF ~errors.some THEN Err("errors missing")
        ELSE IF ~AsArray(errors.v).some THEN Err("not an array")
        ELSE IF Len(AsArray(errors.v).v) = 0 THEN Err("empty array")
        ELSE LET detail == JsonGet(AsArray(errors.v).v[1], "detail")
             IN  IF ~detail.some THEN Err("detail missing")
                 ELSE LET revision == JsonGet(detail.v, "Revision")
                      IN  IF ~revision.some THEN Err("revision missing")
                          ELSE IF ~AsStr(revision.v).some THEN Err("not a string")
                          ELSE Ok(AsStr(revision.v).v)

\* mutant of ArchitectureOf: an entry is dropped when os or architecture is
\* unknown, not only when both are
ArchitectureOfEitherUnknown(entry) ==
    IF ~entry.platform.some THEN None
    ELSE LET p == entry.platform.v
             base == p.os \o "/" \o p.architecture
         IN  IF p.os = "unknown" \/ p.architecture = "unknown" THEN None
             ELSE IF p.variant.some THEN Some(base \o "/" \o p.variant.v)
             ELSE Some(base)

\* registry.rs 179-188: the closure of filter_map, on one entry
ArchitectureOf(entry) ==
    IF ~entry.platform.some THEN None
    ELSE LET p == entry.platform.v
             base == p.os \o "/" \o p.architecture
         IN  IF p.os = "unknown" /\ p.architecture = "unknown" THEN None
             ELSE IF p.variant.some THEN Some(base \o "/" \o p.variant.v)
             ELSE Some(base)

\* registry.rs 175-190: manifests.iter().filter_map(..).collect()
RECURSIVE Architectures(_)
Architectures(manifests) ==
    IF manifests = <<>> THEN <<>>
    ELSE LET first == ArchitectureOf(Head(manifests))
         IN  (IF first.some THEN <<first.v>> ELSE <<>>) \o Architectures(Tail(manifests))

\* registry.rs 197-199
IsLinuxAmd64(entry) ==
    /\ entry.platform.some
    /\ entry.platform.v.os = "linux"
    /\ entry.platform.v.architecture = "amd64"

\* registry.rs 205
HasPlatform(entry) == entry.platform.some

\* registry.rs 193-200: Iterator::find, as the index of the first linux/amd64
\* entry, 0 when there is none
FindLinuxAmd64(manifests) ==
    IF \E i \in 1..Len(manifests) : IsLinuxAmd64(manifests[i])
    THEN CHOOSE i \in 1..Len(manifests) :
            /\ IsLinuxAmd64(manifests[i])
            /\ \A k \in 1..(i - 1) : ~IsLinuxAmd64(manifests[k])
    ELSE 0

\* registry.rs 201-206: the index of the first entry with a platform, 0 when none
FindWithPlatform(manifests) ==
    IF \E i \in 1..Len(manifests) : HasPlatform(manifests[i])
    THEN CHOOSE i \in 1..Len(manifests) :
            /\ HasPlatform(manifests[i])
            /\ \A k \in 1..(i - 1) : ~HasPlatform(manifests[k])
    ELSE 0

\* mutant of PreferredIndex: the first entry with a platform is preferred to
\* a later linux/amd64 entry
PreferredIndexAnyPlatformFirst(manifests) ==
    IF FindWithPlatform(manifests) # 0 THEN FindWithPlatform(manifests)
    ELSE IF FindLinuxAmd64(manifests) # 0 THEN FindLinuxAmd64(manifests)
    ELSE 1

\* registry.rs 193-207: find linux/amd64, or_else the first with a platform,
\* unwrap_or the first entry (the list is not empty); as an index
PreferredIndex(manifests) ==
    IF FindLinuxAmd64(manifests) # 0 THEN FindLinuxAmd64(manifests)
    ELSE IF FindWithPlatform(manifests) # 0 THEN FindWithPlatform(manifests)
    ELSE 1

Preferred(manifests) == manifests[PreferredIndex(manifests)]

----------------------------------------------------------------------------
(* registry::api::Client: requests *)

\* common::service::env::registry_host()
RegistryHost == "registry.test"

\* registry.rs 38
BaseUrl == "https://" \o RegistryHost \o "/v2"

\* registry.rs 52 and 82
AcceptAll ==
    "application/vnd.docker.distribution.manifest.v2+json, "
        \o "application/vnd.oci.image.manifest.v1+json, "
        \o "application/vnd.oci.image.index.v1+json, "
        \o "application/vnd.docker.distribution.manifest.list.v2+json"

\* registry.rs 233
AcceptSingle ==
    "application/vnd.docker.distribution.manifest.v2+json, "
        \o "application/vnd.oci.image.manifest.v1+json"

\* registry.rs 80 and 228-231
ManifestUrl(image, reference) == BaseUrl \o "/" \o image \o "/manifests/" \o reference

\* registry.rs 130 and 246
BlobUrl(image, digest) == BaseUrl \o "/" \o image \o "/blobs/" \o digest

Request(method, url, accept) == [method |-> method, url |-> url, accept |-> accept]

\* one HTTP exchange of a task: what was sent, what send() returned, and
\* whether the body of the response was read
Call(request, reply) == [request |-> request, reply |-> reply, body_read |-> FALSE]

----------------------------------------------------------------------------
(* One Client::manifest(image, reference) future.  pc is the await point   *)
(* it is suspended at.                                                     *)

NewTask(image, reference) ==
    [pc |-> "start", image |-> image, reference |-> reference, calls |-> <<>>,
     header_digest |-> None, config_digest |-> None, manifest_list |-> None,
     architectures |-> <<>>, preferred |-> None, result |-> None]

\* the future completes with result
Finish(task, result) == [task EXCEPT !.pc = "done", !.result = Some(result)]

\* the body of the task's last response is read
BodyRead(task) == [task EXCEPT !.calls[Len(task.calls)].body_read = TRUE]

\* mutant of ManifestDispatch: a multi-arch response without the digest header
\* is handed to the single-arch path, which reads it as an error payload
ManifestDispatchPayloadFallback(task, reply) ==
    LET sent == [task EXCEPT !.calls =
                    Append(@, Call(Request("GET", ManifestUrl(task.image, task.reference),
                                           Some(AcceptAll)), reply))]
    IN  IF ~reply.ok THEN Finish(sent, Err(reply.err))
        ELSE IF IsMultiArch(ContentType(reply.v)) /\ HeaderDigest(reply.v).ok
        THEN [sent EXCEPT !.pc = "multi", !.header_digest = Some(HeaderDigest(reply.v))]
        ELSE [sent EXCEPT !.pc = "single", !.header_digest = Some(HeaderDigest(reply.v))]

\* registry.rs 77-110 up to the first body read: send the manifest request,
\* take content-type and docker-content-digest from the response, dispatch.
\* On the multi-arch path `header_digest?` (168) comes before the body read.
ManifestDispatch(task, reply) ==
    LET sent == [task EXCEPT !.calls =
                    Append(@, Call(Request("GET", ManifestUrl(task.image, task.reference),
                                           Some(AcceptAll)), reply))]
    IN  IF ~reply.ok THEN Finish(sent, Err(reply.err))
        ELSE IF IsMultiArch(ContentType(reply.v))
        THEN IF ~HeaderDigest(reply.v).ok
             THEN Finish(sent, Err(HeaderDigest(reply.v).err))
             ELSE [sent EXCEPT !.pc = "multi", !.header_digest = Some(HeaderDigest(reply.v))]
        ELSE [sent EXCEPT !.pc = "single", !.header_digest = Some(HeaderDigest(reply.v))]

\* registry.rs 112-127 and 142-159: read the body; with the digest header,
\* take config.digest and go on to the blob; without it, the error payload
SingleManifestBody(task) ==
    LET read == BodyRead(task)
        json == ResponseJson(task.calls[1].reply.v)
    IN  IF ~json.ok THEN Finish(read, Err(json.err))
        ELSE IF task.header_digest.v.ok
        THEN IF ~ConfigDigest(json.v).ok
             THEN Finish(read, Err(ConfigDigest(json.v).err))
             ELSE [read EXCEPT !.pc = "single_blob",
                               !.config_digest = Some(ConfigDigest(json.v).v)]
        ELSE IF ~ErrorRevision(json.v).ok
             THEN Finish(read, Err(ErrorRevision(json.v).err))
             ELSE Finish(read, Ok(Error(ErrorRevision(json.v).v)))

\* mutant of SingleManifestBlob: a failure of the blob lookup is swallowed as
\* the created lookup of the multi-arch path swallows it
SingleManifestBlobSwallows(task, reply) ==
    LET sent == [task EXCEPT !.calls =
                    Append(@, Call(Request("GET", BlobUrl(task.image, task.config_digest.v),
                                           None), reply))]
        read == BodyRead(sent)
    IN  IF ~reply.ok THEN Finish(sent, Ok(Error(task.header_digest.v.v)))
        ELSE IF ~ResponseJsonManifestBlob(reply.v).ok
        THEN Finish(read, Ok(Error(task.header_digest.v.v)))
        ELSE LET blob == ResponseJsonManifestBlob(reply.v).v
             IN  IF ~CreatedOf(blob.created).ok
                 THEN Finish(read, Ok(Nominal(task.header_digest.v.v, 0, blob.architecture)))
                 ELSE Finish(read, Ok(Nominal(task.header_digest.v.v,
                                              CreatedOf(blob.created).v,
                                              blob.architecture)))

\* registry.rs 128-141: the config blob, decoded, and the Nominal built from it
SingleManifestBlob(task, reply) ==
    LET sent == [task EXCEPT !.calls =
                    Append(@, Call(Request("GET", BlobUrl(task.image, task.config_digest.v),
                                           None), reply))]
        read == BodyRead(sent)
    IN  IF ~reply.ok THEN Finish(sent, Err(reply.err))
        ELSE IF ~ResponseJsonManifestBlob(reply.v).ok
        THEN Finish(read, Err(ResponseJsonManifestBlob(reply.v).err))
        ELSE LET blob == ResponseJsonManifestBlob(reply.v).v
             IN  IF ~CreatedOf(blob.created).ok
                 THEN Finish(read, Err(CreatedOf(blob.created).err))
                 ELSE Finish(read, Ok(Nominal(task.header_digest.v.v,
                                              CreatedOf(blob.created).v,
                                              blob.architecture)))

\* mutant of MultiArchBody: an empty list is not told apart, and gives a
\* MultiArch without architectures
MultiArchBodyNoEmptyCheck(task) ==
    LET read == BodyRead(task)
        list == ResponseJsonManifestList(task.calls[1].reply.v)
    IN  IF ~list.ok THEN Finish(read, Err(list.err))
        ELSE IF Len(list.v.manifests) = 0
        THEN Finish(read, Ok(MultiArch(task.header_digest.v.v, <<>>, None)))
        ELSE [read EXCEPT !.pc = "created_manifest",
                          !.manifest_list = Some(list.v),
                          !.architectures = Architectures(list.v.manifests),
                          !.preferred = Some(Preferred(list.v.manifests))]

\* registry.rs 169-207: read and decode the manifest list; an empty list is
\* the Error variant; otherwise the architectures and the preferred entry
MultiArchBody(task) ==
    LET read == BodyRead(task)
        list == ResponseJsonManifestList(task.calls[1].reply.v)
    IN  IF ~list.ok THEN Finish(read, Err(list.err))
        ELSE IF Len(list.v.manifests) = 0
        THEN Finish(read, Ok(Error(task.header_digest.v.v)))
        ELSE [read EXCEPT !.pc = "created_manifest",
                          !.manifest_list = Some(list.v),
                          !.architectures = Architectures(list.v.manifests),
                          !.preferred = Some(Preferred(list.v.manifests))]

\* mutant of MultiArchResult: a failed fetch_created_date fails the resolution
MultiArchResultPropagates(task, fetched) ==
    IF fetched.ok
    THEN Ok(MultiArch(task.header_digest.v.v, task.architectures, Some(fetched.v)))
    ELSE Err(fetched.err)

\* registry.rs 209-218: fetch_created_date(..).await.ok() and the MultiArch
MultiArchResult(task, fetched) ==
    Ok(MultiArch(task.header_digest.v.v, task.architectures, ResultOk(fetched)))

\* mutant of CreatedManifest: when the request for the preferred entry's
\* manifest fails, the blob of the entry's own digest is requested
CreatedManifestGoesOn(task, reply) ==
    LET sent == [task EXCEPT !.calls =
                    Append(@, Call(Request("GET",
                                           ManifestUrl(task.image, task.preferred.v.digest),
                                           Some(AcceptSingle)), reply))]
        read == BodyRead(sent)
    IN  IF ~reply.ok
        THEN [sent EXCEPT !.pc = "created_blob",
                          !.config_digest = Some(task.preferred.v.digest)]
        ELSE IF ~ResponseJson(reply.v).ok
        THEN Finish(read, MultiArchResult(read, ResponseJson(reply.v)))
        ELSE IF ~ConfigDigest(ResponseJson(reply.v).v).ok
        THEN Finish(read, MultiArchResult(read, ConfigDigest(ResponseJson(reply.v).v)))
        ELSE [read EXCEPT !.pc = "created_blob",
                          !.config_digest = Some(ConfigDigest(ResponseJson(reply.v).v).v)]

\* registry.rs 221-243: fetch_created_date, the preferred entry's manifest
CreatedManifest(task, reply) ==
    LET sent == [task EXCEPT !.calls =
                    Append(@, Call(Request("GET",
                                           ManifestUrl(task.image, task.preferred.v.digest),
                                           Some(AcceptSingle)), reply))]
        read == BodyRead(sent)
    IN  IF ~reply.ok THEN Finish(sent, MultiArchResult(sent, Err(reply.err)))
        ELSE IF ~ResponseJson(reply.v).ok
        THEN Finish(read, MultiArchResult(read, ResponseJson(reply.v)))
        ELSE IF ~ConfigDigest(ResponseJson(reply.v).v).ok
        THEN Finish(read, MultiArchResult(read, ConfigDigest(ResponseJson(reply.v).v)))
        ELSE [read EXCEPT !.pc = "created_blob",
                          !.config_digest = Some(ConfigDigest(ResponseJson(reply.v).v).v)]

\* registry.rs 244-253: fetch_created_date, the config blob and its created
CreatedBlob(task, reply) ==
    LET sent == [task EXCEPT !.calls =
                    Append(@, Call(Request("GET", BlobUrl(task.image, task.config_digest.v),
                                           None), reply))]
        read == BodyRead(sent)
    IN  IF ~reply.ok THEN Finish(sent, MultiArchResult(sent, Err(reply.err)))
        ELSE IF ~ResponseJsonManifestBlob(reply.v).ok
        THEN Finish(read, MultiArchResult(read, ResponseJsonManifestBlob(reply.v)))
        ELSE Finish(read, MultiArchResult(read,
                              CreatedOf(ResponseJsonManifestBlob(reply.v).v.created)))

----------------------------------------------------------------------------
(* What the registry may answer.  MaxManifests bounds the length of the    *)
(* manifest lists drawn.                                                   *)

MaxManifests == 3

\* send() fails: no connection, TLS, timeout of the transport
Transport == Err("transport")

ManifestJson(config_digest) ==
    JObj(<< <<"schemaVersion", JNum(2)>>,
            <<"config", JObj(<< <<"mediaType", JStr("application/vnd.oci.image.config.v1+json")>>,
                                <<"digest", config_digest>> >>)>> >>)

ErrorItem(revision) ==
    JObj(<< <<"code", JStr("MANIFEST_UNKNOWN")>>,
            <<"detail", JObj(<< <<"Revision", revision>> >>)>> >>)

ErrorsJson(errors) == JObj(<< <<"errors", errors>> >>)

PlatformJson(os, architecture) ==
    JObj(<< <<"architecture", JStr(architecture)>>, <<"os", JStr(os)>> >>)

PlatformVariantJson(os, architecture, variant) ==
    JObj(<< <<"architecture", JStr(architecture)>>, <<"os", JStr(os)>>,
            <<"variant", JStr(variant)>> >>)

\* a manifest list entry; platform is None for an entry without the member
EntryJson(digest, platform) ==
    JObj(<< <<"mediaType", JStr("application/vnd.oci.image.manifest.v1+json")>>,
            <<"digest", JStr(digest)>> >>
         \o (IF platform.some THEN << <<"platform", platform.v>> >> ELSE <<>>))

\* the platforms an entry of a drawn list may carry
PlatformKinds ==
    << None,
       Some(PlatformJson("unknown", "unknown")),
       Some(PlatformJson("linux", "amd64")),
       Some(PlatformJson("linux", "arm64")),
       Some(PlatformVariantJson("linux", "arm", "v7")),
       Some(PlatformJson("windows", "amd64")),
       Some(PlatformJson("unknown", "arm64")) >>

\* the i-th entry of a list has digest sha256:m<i>
EntryDigest(i) == "sha256:m" \o Char(Digits, i + 1)

ManifestLists ==
    UNION {{[i \in 1..n |-> EntryJson(EntryDigest(i), PlatformKinds[f[i]])] :
                f \in [1..n -> 1..Len(PlatformKinds)]} : n \in 1..MaxManifests}

ListJson(items) ==
    JObj(<< <<"schemaVersion", JNum(2)>>, <<"manifests", JArr(items)>> >>)

ContentTypes ==
    {HeaderAbsent, HeaderOpaque,
     HeaderText("application/vnd.docker.distribution.manifest.v2+json"),
     HeaderText("application/vnd.docker.distribution.manifest.list.v2+json"),
     HeaderText("application/vnd.oci.image.index.v1+json"),
     HeaderText("application/json; charset=utf-8")}

ListContentTypes ==
    {HeaderText("application/vnd.docker.distribution.manifest.list.v2+json"),
     HeaderText("application/vnd.oci.image.index.v1+json")}

DigestHeaders == {HeaderAbsent, HeaderOpaque, HeaderText("sha256:aaa")}

\* bodies of a manifest response other than the drawn lists
ManifestBodies ==
    {BodyText, BodyAborted,
     BodyJson(ManifestJson(JStr("sha256:c1"))),
     BodyJson(ManifestJson(JNum(7))),
     BodyJson(JObj(<< <<"config", JObj(<<>>)>> >>)),
     BodyJson(JObj(<< <<"config", JStr("sha256:c1")>> >>)),
     BodyJson(JObj(<<>>)),
     BodyJson(JArr(<<>>)),
     BodyJson(ErrorsJson(JArr(<<ErrorItem(JStr("sha256:bad"))>>))),
     BodyJson(ErrorsJson(JArr(<<ErrorItem(JStr("rev-1")), ErrorItem(JStr("rev-2"))>>))),
     BodyJson(ErrorsJson(JArr(<<>>))),
     BodyJson(ErrorsJson(ErrorItem(JStr("rev-1")))),
     BodyJson(ErrorsJson(JArr(<<JObj(<< <<"code", JStr("MANIFEST_UNKNOWN")>> >>)>>))),
     BodyJson(ErrorsJson(JArr(<<JObj(<< <<"detail", JObj(<<>>)>> >>)>>))),
     BodyJson(ErrorsJson(JArr(<<ErrorItem(JNum(5))>>))),
     BodyJson(JObj(<< <<"config", JObj(<< <<"digest", JStr("sha256:c1")>> >>)>>,
                      <<"errors", JArr(<<ErrorItem(JStr("rev-1"))>>)>> >>)),
     BodyJson(JObj(<< <<"manifests", JArr(<<EntryJson("sha256:m1",
                                                       Some(PlatformJson("linux", "amd64")))>>)>>,
                      <<"errors", JArr(<<ErrorItem(JStr("rev-1"))>>)>> >>)),
     BodyJson(ListJson(<<>>)),
     BodyJson(ListJson(<<EntryJson("sha256:m1", Some(JNull))>>)),
     BodyJson(ListJson(<<JObj(<< <<"platform", PlatformJson("linux", "amd64")>> >>)>>)),
     BodyJson(ListJson(<<EntryJson("sha256:m1", Some(JObj(<< <<"os", JStr("linux")>> >>)))>>)),
     BodyJson(JObj(<< <<"manifests", JStr("none")>> >>))}

\* every answer to GET {image}/manifests/{tag}
ManifestReplies ==
    {Transport}
        \cup {Ok(Response(status, content_type, digest, body)) :
                status \in {200, 404}, content_type \in ContentTypes,
                digest \in DigestHeaders, body \in ManifestBodies}
        \cup {Ok(Response(200, content_type, digest, BodyJson(ListJson(list)))) :
                content_type \in ListContentTypes,
                digest \in {HeaderAbsent, HeaderText("sha256:aaa")},
                list \in ManifestLists}

\* every answer to GET {image}/manifests/{digest of the preferred entry}
CreatedManifestReplies ==
    {Transport}
        \cup {Ok(Response(200, HeaderText("application/vnd.oci.image.manifest.v1+json"),
                          HeaderText("sha256:m0"), body)) :
                body \in {BodyText, BodyAborted,
                          BodyJson(ManifestJson(JStr("sha256:c1"))),
                          BodyJson(ManifestJson(JNum(7))),
                          BodyJson(JObj(<< <<"config", JObj(<<>>)>> >>)),
                          BodyJson(JObj(<<>>))}}
        \cup {Ok(Response(404, HeaderText("application/json; charset=utf-8"), HeaderAbsent,
                          BodyJson(ErrorsJson(JArr(<<ErrorItem(JStr("rev-1"))>>)))))}

BlobJson(architecture, created) ==
    JObj(<< <<"architecture", architecture>>, <<"created", created>>,
            <<"os", JStr("linux")>> >>)

\* every answer to GET {image}/blobs/{config digest}
BlobReplies ==
    {Transport}
        \cup {Ok(Response(200, HeaderText("application/octet-stream"), HeaderAbsent, body)) :
                body \in {BodyText, BodyAborted,
                          BodyJson(BlobJson(JStr("amd64"), JStr("2024-05-01T10:00:00Z"))),
                          BodyJson(BlobJson(JStr("arm64"), JStr("2024-05-01T11:30:00+02:00"))),
                          BodyJson(BlobJson(JStr("amd64"), JStr("2024-02-29T23:00:00-05:00"))),
                          BodyJson(JArr(<<JStr("riscv64"), JStr("2023-12-31T23:59:59Z")>>)),
                          BodyJson(BlobJson(JStr("amd64"), JStr("yesterday"))),
                          BodyJson(BlobJson(JStr("amd64"), JStr("2024-05-01"))),
                          BodyJson(BlobJson(JStr("amd64"), JStr("2023-02-29T10:00:00Z"))),
                          BodyJson(BlobJson(JStr("amd64"), JNum(1714557600))),
                          BodyJson(BlobJson(JNull, JStr("2024-05-01T10:00:00Z"))),
                          BodyJson(JObj(<< <<"architecture", JStr("amd64")>> >>)),
                          BodyJson(JObj(<< <<"created", JStr("2024-05-01T10:00:00Z")>> >>))}}
        \cup {Ok(Response(404, HeaderText("application/json; charset=utf-8"), HeaderAbsent,
                          BodyJson(ErrorsJson(JArr(<<>>)))))}

----------------------------------------------------------------------------
(* The steps of a Client::manifest future.  t is its index in tasks; the   *)
(* replies are what the registry may answer to the request of the step.    *)

ManifestSend(t, replies) ==
    /\ t \in DOMAIN tasks
    /\ tasks[t].pc = "start"
    /\ \E reply \in replies :
          tasks' = [tasks EXCEPT ![t] = ManifestDispatch(tasks[t], reply)]
    /\ UNCHANGED <<overflow_checks, req>>

HandleSingleManifest(t) ==
    /\ t \in DOMAIN tasks
    /\ tasks[t].pc = "single"
    /\ tasks' = [tasks EXCEPT ![t] = SingleManifestBody(tasks[t])]
    /\ UNCHANGED <<overflow_checks, req>>

HandleSingleBlob(t, replies) ==
    /\ t \in DOMAIN tasks
    /\ tasks[t].pc = "single_blob"
    /\ \E reply \in replies :
          tasks' = [tasks EXCEPT ![t] = SingleManifestBlob(tasks[t], reply)]
    /\ UNCHANGED <<overflow_checks, req>>

HandleMultiArchManifest(t) ==
    /\ t \in DOMAIN tasks
    /\ tasks[t].pc = "multi"
    /\ tasks' = [tasks EXCEPT ![t] = MultiArchBody(tasks[t])]
    /\ UNCHANGED <<overflow_checks, req>>

FetchCreatedManifest(t, replies) ==
    /\ t \in DOMAIN tasks
    /\ tasks[t].pc = "created_manifest"
    /\ \E reply \in replies :
          tasks' = [tasks EXCEPT ![t] = CreatedManifest(tasks[t], reply)]
    /\ UNCHANGED <<overflow_checks, req>>

FetchCreatedBlob(t, replies) ==
    /\ t \in DOMAIN tasks
    /\ tasks[t].pc = "created_blob"
    /\ \E reply \in replies :
          tasks' = [tasks EXCEPT ![t] = CreatedBlob(tasks[t], reply)]
    /\ UNCHANGED <<overflow_checks, req>>

----------------------------------------------------------------------------
(* SpecResolve: one call of Client::manifest against every registry answer *)

\* the tags of a tag list, and so the futures of a page, are at most MaxTags
MaxTags == 2

TaskIds == 1..MaxTags

Images == {"foo"}

TagNames == {"latest"}

NoRequest == [pc |-> "none"]

InitResolve ==
    /\ overflow_checks \in BOOLEAN
    /\ req = NoRequest
    /\ tasks \in {<<NewTask(image, tag)>> : image \in Images, tag \in TagNames}

NextResolve ==
    \/ \E t \in TaskIds : ManifestSend(t, ManifestReplies)
    \/ \E t \in TaskIds : HandleSingleManifest(t)
    \/ \E t \in TaskIds : HandleSingleBlob(t, BlobReplies)
    \/ \E t \in TaskIds : HandleMultiArchManifest(t)
    \/ \E t \in TaskIds : FetchCreatedManifest(t, CreatedManifestReplies)
    \/ \E t \in TaskIds : FetchCreatedBlob(t, BlobReplies)

SpecResolve == InitResolve /\ [][NextResolve]_vars

----------------------------------------------------------------------------
(* usize.  The values a query can carry exceed what an Int of the checker  *)
(* holds, so a usize is the sequence of its UsizeBits / 8 bytes, least     *)
(* significant first, and the arithmetic is done on the bytes.             *)

UsizeBits == 64

UsizeLimbs == UsizeBits \div 8

LimbBase == 2^8

RECURSIVE ToLimbs(_, _)
ToLimbs(n, count) ==
    IF count = 0 THEN <<>>
    ELSE <<n % LimbBase>> \o ToLimbs(n \div LimbBase, count - 1)

\* the usize of a small natural
Usize(n) == ToLimbs(n, UsizeLimbs)

\* usize::MAX
UsizeMax == [i \in 1..UsizeLimbs |-> LimbBase - 1]

\* 2^(UsizeBits - 1)
UsizeHighBit == [i \in 1..UsizeLimbs |-> IF i = UsizeLimbs THEN LimbBase \div 2 ELSE 0]

\* the value is below LimbBase^3, so it is an Int of the checker
IsSmall(u) == \A i \in 4..UsizeLimbs : u[i] = 0

ToInt(u) == u[1] + u[2] * LimbBase + u[3] * LimbBase * LimbBase

\* a < b
UsizeLess(a, b) ==
    \E i \in 1..UsizeLimbs :
        /\ a[i] < b[i]
        /\ \A k \in (i + 1)..UsizeLimbs : a[k] = b[k]

UsizeMin(a, b) == IF UsizeLess(b, a) THEN b ELSE a

\* the sum of the byte products a[i] * b[j] of weight LimbBase^(k-1)
RECURSIVE ColumnSum(_, _, _, _)
ColumnSum(a, b, k, i) ==
    IF i > UsizeLimbs THEN 0
    ELSE (IF (k + 1 - i) \in 1..UsizeLimbs THEN a[i] * b[k + 1 - i] ELSE 0)
            + ColumnSum(a, b, k, i + 1)

\* the bytes k.. of the full product, given the carry into byte k
RECURSIVE ProductFrom(_, _, _, _)
ProductFrom(a, b, k, carry) ==
    IF k > 2 * UsizeLimbs THEN <<>>
    ELSE <<(ColumnSum(a, b, k, 1) + carry) % LimbBase>>
            \o ProductFrom(a, b, k + 1, (ColumnSum(a, b, k, 1) + carry) \div LimbBase)

\* the bytes k.. of the full sum, given the carry into byte k
RECURSIVE SumFrom(_, _, _, _)
SumFrom(a, b, k, carry) ==
    IF k > UsizeLimbs THEN <<carry>>
    ELSE <<(a[k] + b[k] + carry) % LimbBase>>
            \o SumFrom(a, b, k + 1, (a[k] + b[k] + carry) \div LimbBase)

MulOverflows(a, b) ==
    \E k \in (UsizeLimbs + 1)..(2 * UsizeLimbs) : ProductFrom(a, b, 1, 0)[k] # 0

WrappingMul(a, b) == SubSeq(ProductFrom(a, b, 1, 0), 1, UsizeLimbs)

AddOverflows(a, b) == SumFrom(a, b, 1, 0)[UsizeLimbs + 1] # 0

WrappingAdd(a, b) == SubSeq(SumFrom(a, b, 1, 0), 1, UsizeLimbs)

\* what a function call comes to: a value, an error returned (ensure!, ?),
\* or a panic
Value(x) == [outcome |-> "ok", v |-> x]
Bail(e) == [outcome |-> "err", err |-> e]
Panic(message) == [outcome |-> "panic", message |-> message]

\* a * b as the build computes it: a panic on overflow with overflow checks,
\* the wrapped product without
UsizeMul(a, b, checks) ==
    IF checks /\ MulOverflows(a, b) THEN Panic("attempt to multiply with overflow")
    ELSE Value(WrappingMul(a, b))

UsizeAdd(a, b, checks) ==
    IF checks /\ AddOverflows(a, b) THEN Panic("attempt to add with overflow")
    ELSE Value(WrappingAdd(a, b))

----------------------------------------------------------------------------
(* common::handler::PaginationQuery and common::service::Paginated *)

\* image.rs 114
DefaultPageSize == 15

PaginationQuery(page, size) == [page |-> page, size |-> size]

Paginated(page, size, total_element_count, data) ==
    [page |-> page, size |-> size, total_element_count |-> total_element_count,
     data |-> data]

\* data[start..end].to_vec(): a panic when the range is not within data
Slice(data, start, end) ==
    IF UsizeLess(end, start) THEN Panic("slice index starts after its end")
    ELSE IF UsizeLess(Usize(Len(data)), end) THEN Panic("range end out of range")
    ELSE Value(SubSeq(data, ToInt(start) + 1, ToInt(end)))

\* common.rs 14-35: PaginationQuery::into_paginated
IntoPaginated(query, default_page_size, data, checks) ==
    LET size == IF query.size.some THEN query.size.v ELSE Usize(default_page_size)
        page == IF query.page.some THEN query.page.v ELSE Usize(0)
        start == UsizeMul(page, size, checks)
    IN  IF ~UsizeLess(Usize(0), size) THEN Bail("Condition failed: size > 0")
        ELSE IF start.outcome = "panic" THEN start
        ELSE IF UsizeAdd(start.v, size, checks).outcome = "panic"
        THEN UsizeAdd(start.v, size, checks)
        ELSE LET end == UsizeMin(UsizeAdd(start.v, size, checks).v, Usize(Len(data)))
             IN  IF UsizeLess(Usize(Len(data)), end)
                 THEN Bail("Condition failed: end <= data.len()")
                 ELSE IF ~UsizeLess(start.v, end)
                 THEN Bail("Condition failed: start < end")
                 ELSE IF Slice(data, start.v, end).outcome = "panic"
                 THEN Slice(data, start.v, end)
                 ELSE Value(Paginated(page, size, Usize(Len(data)), Slice(data, start.v, end).v))

----------------------------------------------------------------------------
(* image::service::get_image_info and image::handler::index *)

\* dto::TagsResponse
DecodeTagsResponse(j) ==
    IF ~StructShape(j, 1) THEN Err("TagsResponse: invalid type")
    ELSE LET tags == StructField(j, "tags", 1)
         IN  IF IsAbsentField(tags) THEN Ok([tags |-> None])
             ELSE IF /\ tags.v.kind = "array"
                     /\ \A i \in 1..Len(tags.v.items) : tags.v.items[i].kind = "string"
             THEN Ok([tags |-> Some([i \in 1..Len(tags.v.items) |-> tags.v.items[i].s])])
             ELSE Err("TagsResponse: tags")

\* registry.rs 44-58 and 71-74: Client::tags through make_request, given what
\* send() returned
TagsOf(reply) ==
    IF ~reply.ok THEN reply
    ELSE IF ~ResponseJson(reply.v).ok THEN ResponseJson(reply.v)
    ELSE DecodeTagsResponse(ResponseJson(reply.v).v)

\* registry.rs 72
TagsUrl(image) == BaseUrl \o "/" \o image \o "/tags/list"

\* image.rs 95-106: get_image_tags, tags.unwrap_or_default()
GetImageTags(reply) ==
    IF ~TagsOf(reply).ok THEN TagsOf(reply)
    ELSE IF TagsOf(reply).v.tags.some THEN Ok(TagsOf(reply).v.tags.v)
    ELSE Ok(<<>>)

\* [String]::join
RECURSIVE JoinStrings(_, _)
JoinStrings(strings, separator) ==
    IF strings = <<>> THEN ""
    ELSE IF Len(strings) = 1 THEN strings[1]
    ELSE strings[1] \o separator \o JoinStrings(Tail(strings), separator)

\* mutant of TagOf: the Tag of an Error manifest is not flagged
TagOfErrorNotFlagged(name, manifest, now) ==
    IF manifest.variant = "Nominal"
    THEN [name |-> name, digest |-> manifest.digest, error |-> FALSE,
          architecture |-> Some(manifest.architecture),
          created |-> Some(manifest.created),
          created_since |-> Some(now - manifest.created)]
    ELSE IF manifest.variant = "MultiArch"
    THEN [name |-> name, digest |-> manifest.digest, error |-> FALSE,
          architecture |-> Some(JoinStrings(manifest.architectures, ", ")),
          created |-> manifest.created,
          created_since |-> IF manifest.created.some
                            THEN Some(now - manifest.created.v) ELSE None]
    ELSE [name |-> name, digest |-> manifest.digest, error |-> FALSE,
          architecture |-> None, created |-> None, created_since |-> None]

\* image.rs 118-151: the Tag of a resolved manifest; now is Utc::now()
TagOf(name, manifest, now) ==
    IF manifest.variant = "Nominal"
    THEN [name |-> name, digest |-> manifest.digest, error |-> FALSE,
          architecture |-> Some(manifest.architecture),
          created |-> Some(manifest.created),
          created_since |-> Some(now - manifest.created)]
    ELSE IF manifest.variant = "MultiArch"
    THEN [name |-> name, digest |-> manifest.digest, error |-> FALSE,
          architecture |-> Some(JoinStrings(manifest.architectures, ", ")),
          created |-> manifest.created,
          created_since |-> IF manifest.created.some
                            THEN Some(now - manifest.created.v) ELSE None]
    ELSE [name |-> name, digest |-> manifest.digest, error |-> TRUE,
          architecture |-> None, created |-> None, created_since |-> None]

\* Ord::cmp on Option<DateTime<Utc>>
OptionCmp(a, b) ==
    IF OptionLess(a, b) THEN "Less"
    ELSE IF OptionLess(b, a) THEN "Greater"
    ELSE "Equal"

\* mutant of SortCompare: ascending by created
SortCompareAscending(a, b) == OptionCmp(a.created, b.created)

\* image.rs 157: the closure |a, b| b.created.cmp(&a.created)
SortCompare(a, b) == OptionCmp(b.created, a.created)

\* mutant of InsertStable: x is put before the elements it is equal to
RECURSIVE InsertBeforeEquals(_, _)
InsertBeforeEquals(sorted, x) ==
    IF sorted = <<>> THEN <<x>>
    ELSE IF SortCompare(x, Head(sorted)) # "Greater" THEN <<x>> \o sorted
    ELSE <<Head(sorted)>> \o InsertBeforeEquals(Tail(sorted), x)

\* x put into a sorted sequence, after the elements it does not precede
RECURSIVE InsertStable(_, _)
InsertStable(sorted, x) ==
    IF sorted = <<>> THEN <<x>>
    ELSE IF SortCompare(x, Head(sorted)) = "Less" THEN <<x>> \o sorted
    ELSE <<Head(sorted)>> \o InsertStable(Tail(sorted), x)

\* image.rs 157: [T]::sort_by, a stable sort, with SortCompare
RECURSIVE SortByCreated(_)
SortByCreated(rows) ==
    IF rows = <<>> THEN <<>>
    ELSE InsertStable(SortByCreated(SubSeq(rows, 1, Len(rows) - 1)), rows[Len(rows)])

\* image.rs 35-52: what handler::index answers for a result of get_image_info
IndexResponse(result) ==
    IF result.ok THEN [kind |-> "markup", info |-> result.v]
    ELSE [kind |-> "redirect", to |-> "/"]

\* a request GET /{image}?page=..&size=.. about to call get_image_info
NewRequest(image, query) ==
    [pc |-> "tags", image |-> image, query |-> query, calls |-> <<>>,
     tags |-> None, paginated |-> None, result |-> None, response |-> None]

\* get_image_info returns result and handler::index answers
Respond(request, result) ==
    [request EXCEPT !.pc = "done", !.result = Some(result),
                    !.response = Some(IndexResponse(result))]

\* image.rs 113-114: the tag list is fetched and paginated
GetImageInfoPaginate(request, reply, checks) ==
    LET sent == [request EXCEPT !.calls =
                    Append(@, Call(Request("GET", TagsUrl(request.image), Some(AcceptAll)),
                                   reply))]
    IN  IF ~GetImageTags(reply).ok THEN Respond(sent, GetImageTags(reply))
        ELSE LET tags == GetImageTags(reply).v
                 page == IntoPaginated(sent.query, DefaultPageSize, tags, checks)
                 listed == [sent EXCEPT !.tags = Some(tags)]
             IN  IF page.outcome = "panic" THEN [listed EXCEPT !.pc = "panicked"]
                 ELSE IF page.outcome = "err" THEN Respond(listed, Err(page.err))
                 ELSE [listed EXCEPT !.pc = "resolving", !.paginated = Some(page.v)]

\* image.rs 115-117 and common.rs 181-190: one manifest future per tag of the page
SpawnTasks(request) ==
    IF request.pc = "resolving"
    THEN [i \in 1..Len(request.paginated.v.data) |->
            NewTask(request.image, request.paginated.v.data[i])]
    ELSE <<>>

\* common.rs 192-202: into_result, the first error of the page in tag order
FirstError(results) ==
    IF \E i \in 1..Len(results) : ~results[i].ok
    THEN Some(results[CHOOSE i \in 1..Len(results) :
                        ~results[i].ok /\ \A k \in 1..(i - 1) : results[k].ok])
    ELSE None

\* mutant of GetImageInfoCollect: the tags whose resolution failed are left
\* out and the page is built from the others
GetImageInfoCollectPartial(request, finished, nows) ==
    LET resolved == SelectSeq(finished, LAMBDA task : task.result.v.ok)
    IN  Respond(request,
            Ok([tags |-> [request.paginated.v EXCEPT !.data =
                   SortByCreated([i \in 1..Len(resolved) |->
                       TagOf(resolved[i].reference, resolved[i].result.v.v, nows[i])])]]))

\* image.rs 115-159: the futures are joined in tag order, each manifest made a
\* Tag; a hard error fails the page; the Tags are sorted by created
GetImageInfoCollect(request, finished, nows) ==
    LET results == [i \in 1..Len(finished) |-> finished[i].result.v]
    IN  IF FirstError(results).some THEN Respond(request, FirstError(results).v)
        ELSE Respond(request,
                 Ok([tags |-> [request.paginated.v EXCEPT !.data =
                        SortByCreated([i \in 1..Len(finished) |->
                            TagOf(request.paginated.v.data[i], results[i].v, nows[i])])]]))

----------------------------------------------------------------------------
(* SpecPage: GET /{image}?page=..&size=.., served by get_image_info        *)

MaxPage == 3

MaxSize == 3

\* the i-th tag of a tag list is v<i>
TagName(i) == "v" \o Char(Digits, i + 1)

TagListJson(n) ==
    JObj(<< <<"name", JStr("foo")>>, <<"tags", JArr([i \in 1..n |-> JStr(TagName(i))])>> >>)

\* every answer to GET {image}/tags/list
TagsReplies ==
    {Transport}
        \cup {Ok(Response(200, HeaderText("application/json; charset=utf-8"), HeaderAbsent,
                          body)) :
                body \in {BodyJson(TagListJson(n)) : n \in 0..MaxTags}
                            \cup {BodyText,
                                  BodyJson(JObj(<< <<"name", JStr("foo")>>, <<"tags", JNull>> >>)),
                                  BodyJson(JObj(<< <<"name", JStr("foo")>> >>)),
                                  BodyJson(JObj(<< <<"tags", JArr(<<JNum(1)>>)>> >>))}}

\* the answers drawn for the manifests of a page: one per outcome of manifest()
PageManifestReplies ==
    {Transport,
     Ok(Response(200, HeaderText("application/vnd.docker.distribution.manifest.v2+json"),
                 HeaderText("sha256:aaa"), BodyJson(ManifestJson(JStr("sha256:c1"))))),
     Ok(Response(404, HeaderText("application/json; charset=utf-8"), HeaderAbsent,
                 BodyJson(ErrorsJson(JArr(<<ErrorItem(JStr("sha256:bad"))>>))))),
     Ok(Response(200, HeaderText("application/vnd.oci.image.index.v1+json"),
                 HeaderText("sha256:bbb"),
                 BodyJson(ListJson(<<EntryJson("sha256:m1", Some(PlatformJson("linux", "amd64"))),
                                     EntryJson("sha256:m2", Some(PlatformJson("linux", "arm64")))>>))))}

PageCreatedManifestReplies ==
    {Transport,
     Ok(Response(200, HeaderText("application/vnd.oci.image.manifest.v1+json"),
                 HeaderText("sha256:m1"), BodyJson(ManifestJson(JStr("sha256:c1")))))}

PageBlobReplies ==
    {Ok(Response(200, HeaderText("application/octet-stream"), HeaderAbsent, body)) :
        body \in {BodyText,
                  BodyJson(BlobJson(JStr("amd64"), JStr("2024-05-01T10:00:00Z"))),
                  BodyJson(BlobJson(JStr("amd64"), JStr("2024-05-01T11:30:00+02:00")))}}

\* the values Utc::now() takes while a page is built
Now == {1714608000, 1714608060}

Pages ==
    {None, Some(UsizeHighBit), Some(UsizeMax)} \cup {Some(Usize(n)) : n \in 0..MaxPage}

Sizes ==
    {None, Some(UsizeHighBit), Some(UsizeMax)} \cup {Some(Usize(n)) : n \in 0..MaxSize}

GetImageInfoTags(replies) ==
    /\ req.pc = "tags"
    /\ \E reply \in replies :
          /\ req' = GetImageInfoPaginate(req, reply, overflow_checks)
          /\ tasks' = SpawnTasks(req')
    /\ UNCHANGED overflow_checks

GetImageInfoJoin ==
    /\ req.pc = "resolving"
    /\ \A t \in DOMAIN tasks : tasks[t].pc = "done"
    /\ \E nows \in [DOMAIN tasks -> Now] :
          req' = GetImageInfoCollect(req, tasks, nows)
    /\ UNCHANGED <<overflow_checks, tasks>>

InitPage ==
    /\ overflow_checks \in BOOLEAN
    /\ req \in {NewRequest(image, PaginationQuery(page, size)) :
                    image \in Images, page \in Pages, size \in Sizes}
    /\ tasks = <<>>

NextPage ==
    \/ GetImageInfoTags(TagsReplies)
    \/ \E t \in TaskIds : ManifestSend(t, PageManifestReplies)
    \/ \E t \in TaskIds : HandleSingleManifest(t)
    \/ \E t \in TaskIds : HandleSingleBlob(t, PageBlobReplies)
    \/ \E t \in TaskIds : HandleMultiArchManifest(t)
    \/ \E t \in TaskIds : FetchCreatedManifest(t, PageCreatedManifestReplies)
    \/ \E t \in TaskIds : FetchCreatedBlob(t, PageBlobReplies)
    \/ GetImageInfoJoin

SpecPage == InitPage /\ [][NextPage]_vars

----------------------------------------------------------------------------
(* auth: the auth_token cookie and the Authenticated extractor             *)

\* auth.rs 122: AUTH_TOKEN_COOKIE_NAME
AuthTokenCookieName == "auth_token"

\* auth.rs 135-141: get_credentials, EXPLORER_USERNAME and EXPLORER_PASSWORD
GetCredentials == [username |-> "admin", password |-> "secret"]

\* Sha256 printed with {:X}: the digest of a text, distinct for distinct texts
Sha256Hex(text) == "SHA256[" \o text \o "]"

\* auth.rs 129-133: hash_credentials
HashCredentials(username, password) == Sha256Hex(username \o password)

\* the CookieJar extracted from a request whose auth_token cookie is cookie:
\* the cookies received, the cookies as the handler sees them, and the
\* Set-Cookie changes the jar sends back
NewCookieJar(cookie) == [original |-> cookie, current |-> cookie, delta |-> <<>>]

\* auth.rs 160-162: get_auth_token
GetAuthToken(jar) == jar.current

\* auth.rs 156-158: remove_auth_token; a cookie that came with the request is
\* removed by sending back a removal cookie
RemoveAuthToken(jar) ==
    [jar EXCEPT !.current = None,
                !.delta = IF jar.original.some
                          THEN <<[name |-> AuthTokenCookieName, value |-> "", path |-> "/",
                                  removal |-> TRUE]>>
                          ELSE <<>>]

Redirect(to) == [kind |-> "redirect", to |-> to]

\* auth.rs 16-32: Authenticated::from_request_parts, for the auth_token cookie
\* and the URI path of the request
AuthenticatedFromRequestParts(cookie, path) ==
    LET cookie_jar == NewCookieJar(cookie)
        token == GetAuthToken(cookie_jar)
        redirection == Redirect("/auth/login?from=" \o path)
        hash == HashCredentials(GetCredentials.username, GetCredentials.password)
    IN  IF token.some
        THEN IF token.v = hash THEN Ok("Authenticated")
             ELSE Err(redirection @@ [jar |-> RemoveAuthToken(cookie_jar)])
        ELSE Err(redirection @@ [jar |-> cookie_jar])

----------------------------------------------------------------------------
(* Client::delete_tag and the handlers of the routes                       *)

\* registry.rs 260: the URL of delete_tag
DeleteUrl(image, digest) == BaseUrl \o "/" \o image \o "/manifests/" \o digest

\* reqwest::Response::error_for_status: an error for a 4xx or 5xx status
ErrorForStatus(resp) ==
    IF resp.status \in 400..599 THEN Err("status") ELSE Ok(resp)

\* registry.rs 256-267: what delete_tag returns, given what send() returned
DeleteTagResult(reply) ==
    IF ~reply.ok THEN reply
    ELSE IF ~ErrorForStatus(reply.v).ok THEN ErrorForStatus(reply.v)
    ELSE Ok("unit")

\* router.rs 15-22: the routes whose handlers call the registry
RouteHome == "GET /"
RouteImage == "GET /{image}"
RouteDeleteAll == "POST /{image}/delete"
RouteDeleteTag == "POST /{image}/delete/{digest}"

\* the URI path of a request to the route
UriPath(route, image, digest) ==
    IF route = RouteHome THEN "/"
    ELSE IF route = RouteImage THEN "/" \o image
    ELSE IF route = RouteDeleteAll THEN "/" \o image \o "/delete"
    ELSE "/" \o image \o "/delete/" \o digest

\* the handlers that take the Authenticated extractor: home.rs 21-27 and
\* 34-41, image.rs 35-43; image.rs 54-60 does not
ExtractsAuthenticated(route) == route \in {RouteHome, RouteImage, RouteDeleteAll}

\* the await point a handler starts at
HandlerEntry(route) ==
    IF route = RouteHome THEN "catalog"
    ELSE IF route = RouteImage THEN "tags"
    ELSE IF route = RouteDeleteAll THEN "delete_all_tags"
    ELSE "delete_tag"

\* a request to a route, with its auth_token cookie, about to be extracted
RouteRequest(route, cookie, image, digest, query) ==
    [pc |-> "extract", route |-> route, cookie |-> cookie, digest |-> digest,
     images |-> <<>>, digests |-> <<>>]
        @@ NewRequest(image, query)

\* the extractors of the handler run: a rejection of Authenticated is the
\* response, otherwise the handler starts
ExtractRequest(request) ==
    LET auth == AuthenticatedFromRequestParts(
                    request.cookie, UriPath(request.route, request.image, request.digest))
    IN  IF ExtractsAuthenticated(request.route) /\ ~auth.ok
        THEN [request EXCEPT !.pc = "done", !.response = Some(auth.err)]
        ELSE [request EXCEPT !.pc = HandlerEntry(request.route)]

\* mutant of DeleteTagHandler: a failed deletion is answered with an error
DeleteTagHandlerFailsHard(request, reply) ==
    LET sent == [request EXCEPT !.calls =
                    Append(@, Call(Request("DELETE",
                                           DeleteUrl(request.image, request.digest), None),
                                   reply))]
    IN  [sent EXCEPT !.pc = "done",
                     !.result = Some(DeleteTagResult(reply)),
                     !.response = IF DeleteTagResult(reply).ok
                                  THEN Some(Redirect("/" \o request.image))
                                  ELSE Some([kind |-> "error", status |-> 500])]

\* image.rs 54-68 and 82-93: handler::delete_tag over service::delete_tag
DeleteTagHandler(request, reply) ==
    LET sent == [request EXCEPT !.calls =
                    Append(@, Call(Request("DELETE",
                                           DeleteUrl(request.image, request.digest), None),
                                   reply))]
    IN  [sent EXCEPT !.pc = "done",
                     !.result = Some(DeleteTagResult(reply)),
                     !.response = Some(Redirect("/" \o request.image))]

----------------------------------------------------------------------------
(* home::service::get_images and home::service::delete_all_image_tags      *)

\* dto::CatalogResponse
DecodeCatalogResponse(j) ==
    IF ~StructShape(j, 1) THEN Err("CatalogResponse: invalid type")
    ELSE LET repositories == StructField(j, "repositories", 1)
         IN  IF /\ repositories.some
                /\ repositories.v.kind = "array"
                /\ \A i \in 1..Len(repositories.v.items) :
                      repositories.v.items[i].kind = "string"
             THEN Ok([repositories |-> [i \in 1..Len(repositories.v.items) |->
                                          repositories.v.items[i].s]])
             ELSE Err("CatalogResponse: repositories")

\* registry.rs 44-62: Client::catalog through make_request, given what send()
\* returned
CatalogOf(reply) ==
    IF ~reply.ok THEN reply
    ELSE IF ~ResponseJson(reply.v).ok THEN ResponseJson(reply.v)
    ELSE DecodeCatalogResponse(ResponseJson(reply.v).v)

\* registry.rs 61
CatalogUrl == BaseUrl \o "/" \o "_catalog"

\* registry.rs 65-68: count_tags, given what send() returned
CountTagsOf(reply) ==
    IF ~TagsOf(reply).ok THEN TagsOf(reply)
    ELSE IF TagsOf(reply).v.tags.some THEN Ok(Len(TagsOf(reply).v.tags.v))
    ELSE Ok(0)

\* one Client::count_tags(image) future
NewCountTask(image) ==
    [pc |-> "count_tags", image |-> image, calls |-> <<>>, result |-> None]

\* home.rs 21-32: handler::index answers for a result of get_images
HomeResponse(result) ==
    IF result.ok THEN [kind |-> "markup", images |-> result.v]
    ELSE [kind |-> "markup", error |-> "Could not retrieve images"]

HomeRespond(request, result) ==
    [request EXCEPT !.pc = "done", !.result = Some(result),
                    !.response = Some(HomeResponse(result))]

\* home.rs 92-97: the catalog is fetched
GetImagesCatalogOf(request, reply) ==
    LET sent == [request EXCEPT !.calls =
                    Append(@, Call(Request("GET", CatalogUrl, Some(AcceptAll)), reply))]
    IN  IF ~CatalogOf(reply).ok THEN HomeRespond(sent, CatalogOf(reply))
        ELSE [sent EXCEPT !.pc = "counting",
                          !.images = CatalogOf(reply).v.repositories]

\* home.rs 99-103: one count_tags future per image of the catalog
SpawnCountTasks(request) ==
    IF request.pc = "counting"
    THEN [i \in 1..Len(request.images) |-> NewCountTask(request.images[i])]
    ELSE <<>>

\* home.rs 104-119: the counts are joined in catalog order; the first error
\* fails get_images
GetImagesCollect(request, finished) ==
    LET results == [i \in 1..Len(finished) |-> finished[i].result.v]
    IN  IF FirstError(results).some THEN HomeRespond(request, FirstError(results).v)
        ELSE HomeRespond(request,
                 Ok([i \in 1..Len(finished) |->
                        [name |-> request.images[i], tag_count |-> results[i].v]]))

\* Itertools::unique: the first occurrence of each element, in order
RECURSIVE Unique(_)
Unique(items) ==
    IF items = <<>> THEN <<>>
    ELSE LET front == Unique(SubSeq(items, 1, Len(items) - 1))
             last == items[Len(items)]
         IN  IF \E i \in 1..Len(front) : front[i] = last THEN front
             ELSE Append(front, last)

\* home.rs 34-44: handler::delete_all_image_tags drops the result of the
\* service and answers with a redirect to "/"
DeleteAllRespond(request, result) ==
    [request EXCEPT !.pc = "done", !.result = Some(result),
                    !.response = Some(Redirect("/"))]

\* home.rs 61-70: the tags are fetched; None ends the service with Ok
DeleteAllTagsOf(request, reply) ==
    LET sent == [request EXCEPT !.calls =
                    Append(@, Call(Request("GET", TagsUrl(request.image), Some(AcceptAll)),
                                   reply))]
    IN  IF ~TagsOf(reply).ok THEN DeleteAllRespond(sent, TagsOf(reply))
        ELSE IF ~TagsOf(reply).v.tags.some THEN DeleteAllRespond(sent, Ok("unit"))
        ELSE [sent EXCEPT !.pc = "delete_all_resolving",
                          !.tags = Some(TagsOf(reply).v.tags.v)]

\* home.rs 67-70: one manifest future per tag
SpawnDeleteAllTasks(request) ==
    IF request.pc = "delete_all_resolving"
    THEN [i \in 1..Len(request.tags.v) |-> NewTask(request.image, request.tags.v[i])]
    ELSE <<>>

\* home.rs 71-76: the manifests are joined in tag order; the first error ends
\* the service, otherwise the distinct digests are what is left to delete
DeleteAllCollect(request, finished) ==
    LET results == [i \in 1..Len(finished) |-> finished[i].result.v]
        digests == Unique([i \in 1..Len(finished) |-> results[i].v.digest])
    IN  IF FirstError(results).some THEN DeleteAllRespond(request, FirstError(results).v)
        ELSE IF digests = <<>> THEN DeleteAllRespond(request, Ok("unit"))
        ELSE [request EXCEPT !.pc = "deleting", !.digests = digests]

\* mutant of DeleteAllNextOf: a failed deletion is passed over and the next
\* digest is deleted
DeleteAllNextOfGoesOn(request, reply) ==
    LET sent == [request EXCEPT !.calls =
                    Append(@, Call(Request("DELETE",
                                           DeleteUrl(request.image, Head(request.digests)),
                                           None),
                                   reply))]
    IN  IF Tail(request.digests) = <<>>
        THEN DeleteAllRespond(sent, DeleteTagResult(reply))
        ELSE [sent EXCEPT !.digests = Tail(request.digests)]

\* home.rs 77-85: the next digest is deleted; a failure ends the service
DeleteAllNextOf(request, reply) ==
    LET sent == [request EXCEPT !.calls =
                    Append(@, Call(Request("DELETE",
                                           DeleteUrl(request.image, Head(request.digests)),
                                           None),
                                   reply))]
    IN  IF ~DeleteTagResult(reply).ok THEN DeleteAllRespond(sent, DeleteTagResult(reply))
        ELSE IF Tail(request.digests) = <<>> THEN DeleteAllRespond(sent, Ok("unit"))
        ELSE [sent EXCEPT !.digests = Tail(request.digests)]

----------------------------------------------------------------------------
(* SpecRoutes: one request to a route that calls the registry              *)

\* the statuses a registry answers a DELETE with
DeleteStatuses == {200, 202, 204, 300, 304, 401, 404, 405, 500}

\* every answer to DELETE {image}/manifests/{digest}
DeleteReplies ==
    {Transport}
        \cup {Ok(Response(status, HeaderAbsent, HeaderAbsent, BodyText)) :
                status \in DeleteStatuses}

\* the auth_token cookie of a request: none, the hash of the credentials,
\* the hash of other credentials, a text that is no hash
Cookies ==
    {None, Some(HashCredentials(GetCredentials.username, GetCredentials.password)),
     Some(HashCredentials("admin", "guess")), Some("")}

Digests == {"sha256:deadbeef"}

Extract ==
    /\ req.pc = "extract"
    /\ req' = ExtractRequest(req)
    /\ UNCHANGED <<overflow_checks, tasks>>

DeleteTag(replies) ==
    /\ req.pc = "delete_tag"
    /\ \E reply \in replies : req' = DeleteTagHandler(req, reply)
    /\ UNCHANGED <<overflow_checks, tasks>>

MaxImages == 2

ImageIds == 1..MaxImages

\* the i-th repository of a catalog
ImageName(i) == <<"foo", "bar", "baz", "qux">>[i]

\* every answer to GET _catalog
CatalogReplies ==
    {Transport}
        \cup {Ok(Response(200, HeaderText("application/json; charset=utf-8"), HeaderAbsent,
                          body)) :
                body \in {BodyJson(JObj(<< <<"repositories",
                                            JArr([i \in 1..n |-> JStr(ImageName(i))])>> >>)) :
                            n \in 0..MaxImages}
                            \cup {BodyText, BodyJson(JObj(<<>>))}}

\* the answers drawn for the DELETEs of delete_all_image_tags
DeleteAllReplies ==
    {Transport,
     Ok(Response(202, HeaderAbsent, HeaderAbsent, BodyText)),
     Ok(Response(300, HeaderAbsent, HeaderAbsent, BodyText)),
     Ok(Response(404, HeaderAbsent, HeaderAbsent, BodyText))}

\* the queries of the requests to GET /{image}
RouteQueries ==
    {PaginationQuery(None, None), PaginationQuery(Some(Usize(1)), Some(Usize(1)))}

Routes == {RouteHome, RouteImage, RouteDeleteAll, RouteDeleteTag}

GetImagesCatalog(replies) ==
    /\ req.pc = "catalog"
    /\ \E reply \in replies :
          /\ req' = GetImagesCatalogOf(req, reply)
          /\ tasks' = SpawnCountTasks(req')
    /\ UNCHANGED overflow_checks

CountTags(t, replies) ==
    /\ t \in DOMAIN tasks /\ tasks[t].pc = "count_tags"
    /\ \E reply \in replies :
          tasks' = [tasks EXCEPT ![t] =
                      [@ EXCEPT !.pc = "done",
                                !.calls = Append(@, Call(Request("GET", TagsUrl(tasks[t].image),
                                                                 Some(AcceptAll)), reply)),
                                !.result = Some(CountTagsOf(reply))]]
    /\ UNCHANGED <<overflow_checks, req>>

GetImagesJoin ==
    /\ req.pc = "counting"
    /\ \A t \in DOMAIN tasks : tasks[t].pc = "done"
    /\ req' = GetImagesCollect(req, tasks)
    /\ UNCHANGED <<overflow_checks, tasks>>

DeleteAllTags(replies) ==
    /\ req.pc = "delete_all_tags"
    /\ \E reply \in replies :
          /\ req' = DeleteAllTagsOf(req, reply)
          /\ tasks' = SpawnDeleteAllTasks(req')
    /\ UNCHANGED overflow_checks

DeleteAllJoin ==
    /\ req.pc = "delete_all_resolving"
    /\ \A t \in DOMAIN tasks : tasks[t].pc = "done"
    /\ req' = DeleteAllCollect(req, tasks)
    /\ UNCHANGED <<overflow_checks, tasks>>

DeleteAllNext(replies) ==
    /\ req.pc = "deleting"
    /\ \E reply \in replies : req' = DeleteAllNextOf(req, reply)
    /\ UNCHANGED <<overflow_checks, tasks>>

InitRoutes ==
    /\ overflow_checks \in BOOLEAN
    /\ req \in {RouteRequest(route, cookie, image, digest, query) :
                    route \in Routes \ {RouteImage}, cookie \in Cookies, image \in Images,
                    digest \in Digests, query \in {PaginationQuery(None, None)}}
               \cup {RouteRequest(RouteImage, cookie, image, digest, query) :
                        cookie \in Cookies, image \in Images, digest \in Digests,
                        query \in RouteQueries}
    /\ tasks = <<>>

NextRoutes ==
    \/ Extract
    \/ GetImagesCatalog(CatalogReplies)
    \/ \E t \in ImageIds : CountTags(t, TagsReplies)
    \/ GetImagesJoin
    \/ GetImageInfoTags(TagsReplies)
    \/ GetImageInfoJoin
    \/ DeleteAllTags(TagsReplies)
    \/ DeleteAllJoin
    \/ DeleteAllNext(DeleteAllReplies)
    \/ DeleteTag(DeleteReplies)
    \/ \E t \in TaskIds : ManifestSend(t, PageManifestReplies)
    \/ \E t \in TaskIds : HandleSingleManifest(t)
    \/ \E t \in TaskIds : HandleSingleBlob(t, PageBlobReplies)
    \/ \E t \in TaskIds : HandleMultiArchManifest(t)
    \/ \E t \in TaskIds : FetchCreatedManifest(t, PageCreatedManifestReplies)
    \/ \E t \in TaskIds : FetchCreatedBlob(t, PageBlobReplies)

SpecRoutes == InitRoutes /\ [][NextRoutes]_vars

----------------------------------------------------------------------------
(* The auth handlers, and a browser that keeps one cookie jar over a       *)
(* sequence of requests                                                    *)

\* auth.rs 145-154: set_auth_token; the cookie is added to the jar and sent back
SetAuthToken(jar, token) ==
    [jar EXCEPT !.current = Some(token),
                !.delta = <<[name |-> AuthTokenCookieName, value |-> token,
                             http_only |-> TRUE, secure |-> TRUE, path |-> "/",
                             same_site |-> "Strict",
                             expires |-> "9999-01-01 0:00 UTC", removal |-> FALSE]>>]

\* mutant of ServiceAuthenticate: the two texts are compared once joined
ServiceAuthenticateConcatenated(username, password) ==
    username \o password = GetCredentials.username \o GetCredentials.password

\* auth.rs 124-127: service::authenticate
ServiceAuthenticate(username, password) ==
    LET good_username == GetCredentials.username
        good_password == GetCredentials.password
    IN  username = good_username /\ password = good_password

\* auth.rs 22 and 100-106: Redirect::to builds a Location header value from the
\* text and panics on a text that is no header value; of the characters of
\* the texts here the line feed is the one a header value cannot hold
IsHeaderValue(text) == ~Contains(text, "\n")

\* the response of a handler that returns (CookieJar, Redirect); a panic
\* while the tuple is built leaves no response
JarAndRedirect(jar, to) ==
    IF IsHeaderValue(to) THEN Redirect(to) @@ [jar |-> jar]
    ELSE [kind |-> "aborted"]

\* auth.rs 85-87: handler::logout
LogoutHandler(cookie) ==
    JarAndRedirect(RemoveAuthToken(NewCookieJar(cookie)), "/")

\* auth.rs 89-109: handler::authenticate, for the auth_token cookie of the
\* request, the from parameter of the query and the fields of the form
AuthenticateHandler(cookie, from, username, password) ==
    LET cookie_jar == NewCookieJar(cookie)
    IN  IF ServiceAuthenticate(username, password)
        THEN LET hash == HashCredentials(username, password)
             IN  JarAndRedirect(SetAuthToken(cookie_jar, hash),
                                IF from.some THEN from.v ELSE "/")
        ELSE JarAndRedirect(cookie_jar,
                            "/auth/login?error=invalid_credentials&username=" \o username
                                \o (IF from.some THEN "&from=" \o from.v ELSE ""))

\* the auth_token cookie the browser holds once it has the response: a
\* cookie of the response replaces it, a removal cookie of its path drops it
RECURSIVE StoreCookies(_, _)
StoreCookies(cookie, delta) ==
    IF delta = <<>> THEN cookie
    ELSE LET c == Head(delta)
             stored == IF c.name # AuthTokenCookieName \/ c.path # "/" THEN cookie
                       ELSE IF c.removal THEN None
                       ELSE Some(c.value)
         IN  StoreCookies(stored, Tail(delta))

BrowserAfter(cookie, response) ==
    IF response.some /\ response.v.kind = "redirect"
    THEN StoreCookies(cookie, response.v.jar.delta)
    ELSE cookie

\* the texts a login form is filled with, and the from parameters
Usernames == {"admin", "adm", "ad\nmin"}
Passwords == {"secret", "insecret", "guess"}
Froms == {None, Some("/foo"), Some("/foo\n")}

\* the browser before its first request
NoExchange(cookie) ==
    [pc |-> "done", op |-> "none", previous |-> "none", cookie |-> cookie,
     response |-> None, browser |-> cookie]

\* POST /auth/authenticate with the cookie the browser holds
Authenticate ==
    \E username \in Usernames, password \in Passwords, from \in Froms :
        LET response == Some(AuthenticateHandler(req.browser, from, username, password))
        IN  /\ req' = [pc |-> "done", op |-> "authenticate", previous |-> req.op,
                       cookie |-> req.browser, username |-> username,
                       password |-> password, from |-> from, response |-> response,
                       browser |-> BrowserAfter(req.browser, response)]
            /\ UNCHANGED <<overflow_checks, tasks>>

\* POST /auth/logout with the cookie the browser holds
Logout ==
    LET response == Some(LogoutHandler(req.browser))
    IN  /\ req' = [pc |-> "done", op |-> "logout", previous |-> req.op,
                   cookie |-> req.browser, response |-> response,
                   browser |-> BrowserAfter(req.browser, response)]
        /\ UNCHANGED <<overflow_checks, tasks>>

\* a request to a route whose handler takes the Authenticated extractor, up
\* to the end of the extraction
Protected ==
    \E route \in {r \in Routes : ExtractsAuthenticated(r)}, image \in Images,
       digest \in Digests :
        LET extracted == ExtractRequest(RouteRequest(route, req.browser, image, digest,
                                                     PaginationQuery(None, None)))
        IN  /\ req' = [op |-> "protected", previous |-> req.op,
                       browser |-> BrowserAfter(req.browser, extracted.response)]
                          @@ extracted
            /\ UNCHANGED <<overflow_checks, tasks>>

InitAuth ==
    /\ overflow_checks \in BOOLEAN
    /\ req \in {NoExchange(cookie) : cookie \in Cookies}
    /\ tasks = <<>>

NextAuth ==
    \/ Authenticate
    \/ Logout
    \/ Protected

SpecAuth == InitAuth /\ [][NextAuth]_vars

----------------------------------------------------------------------------
(* Vocabulary of the properties: what a response is, read without the      *)
(* operators of the client.                                                *)

\* the task has received a response to its manifest request
Answered(task) == Len(task.calls) >= 1 /\ task.calls[1].reply.ok

\* the response to the manifest request
FirstResponse(task) == task.calls[1].reply.v

\* the response carries a docker-content-digest header that reads as text
CarriesDigest(resp) ==
    resp.docker_content_digest.present /\ resp.docker_content_digest.text

\* the content type names a manifest list or an image index
ListContentType(resp) ==
    /\ resp.content_type.present /\ resp.content_type.text
    /\ \/ Contains(resp.content_type.value, "manifest.list")
       \/ Contains(resp.content_type.value, "image.index")

\* the member of a JSON object, JNull when j is no object or has no such member
Member(j, key) ==
    IF j.kind = "object" /\ JsonGet(j, key).some THEN JsonGet(j, key).v ELSE JNull

\* the body is JSON whose config.digest is a string
HasConfigDigest(resp) ==
    /\ resp.body.kind = "json"
    /\ Member(resp.body.json, "config").kind = "object"
    /\ Member(Member(resp.body.json, "config"), "digest").kind = "string"

ConfigDigestIn(resp) == Member(Member(resp.body.json, "config"), "digest").s

\* the body is JSON whose errors[0].detail.Revision is a string
HasRevision(resp) ==
    /\ resp.body.kind = "json"
    /\ Member(resp.body.json, "errors").kind = "array"
    /\ Len(Member(resp.body.json, "errors").items) >= 1
    /\ Member(Member(Member(resp.body.json, "errors").items[1], "detail"),
              "Revision").kind = "string"

RevisionIn(resp) ==
    Member(Member(Member(resp.body.json, "errors").items[1], "detail"), "Revision").s

\* the reply is a config blob that decodes, with an RFC 3339 created
ValidBlob(reply) ==
    /\ reply.ok
    /\ reply.v.body.kind = "json"
    /\ DecodeManifestBlob(reply.v.body.json).ok
    /\ ParseFromRfc3339(DecodeManifestBlob(reply.v.body.json).v.created).ok

BlobIn(reply) == DecodeManifestBlob(reply.v.body.json).v

\* the task returned a hard error
HardError(task) == task.pc = "done" /\ ~task.result.v.ok

\* the task returned the TagManifest m
Returned(task, m) == task.pc = "done" /\ task.result.v.ok /\ task.result.v.v = m

\* the task returned some TagManifest of the variant
ReturnedVariant(task, variant) ==
    task.pc = "done" /\ task.result.v.ok /\ task.result.v.v.variant = variant

\* an entry of a manifest list names a real platform
RealPlatform(entry) ==
    /\ entry.platform.some
    /\ ~(entry.platform.v.os = "unknown" /\ entry.platform.v.architecture = "unknown")

\* "os/architecture", with "/variant" when there is one
PlatformText(entry) ==
    entry.platform.v.os \o "/" \o entry.platform.v.architecture
        \o (IF entry.platform.v.variant.some THEN "/" \o entry.platform.v.variant.v ELSE "")

IsAmd64Entry(entry) ==
    /\ entry.platform.some
    /\ entry.platform.v.os = "linux" /\ entry.platform.v.architecture = "amd64"

\* the task is on the multi-arch path with a decoded, non-empty manifest list
HasList(task) == task.manifest_list.some

ListOf(task) == task.manifest_list.v.manifests

\* the entry of the list whose manifest the task requested for created
FetchedEntries(task) ==
    {i \in 1..Len(ListOf(task)) :
        task.calls[2].request.url = ManifestUrl(task.image, ListOf(task)[i].digest)}

----------------------------------------------------------------------------
(* C1..C8: Client::manifest, under SpecResolve                             *)

\* C1: a response with the digest header, dispatched to the single-arch path,
\* with a string config.digest, makes manifest() request the blob of that
\* config digest; when the blob decodes with an architecture and an RFC 3339
\* created, manifest() returns Nominal with the header's digest, the blob's
\* architecture and the instant the created text denotes, in UTC
\* (2024-05-01T11:30:00+02:00 is 1714555800 s after the epoch).
C1_NominalFromValidManifest ==
    \A t \in DOMAIN tasks :
        LET task == tasks[t]
        IN  (/\ task.pc = "done" /\ Answered(task)
             /\ CarriesDigest(FirstResponse(task))
             /\ ~ListContentType(FirstResponse(task))
             /\ HasConfigDigest(FirstResponse(task)))
            => /\ Len(task.calls) = 2
               /\ task.calls[2].request =
                     Request("GET", "https://registry.test/v2/" \o task.image \o "/blobs/"
                                        \o ConfigDigestIn(FirstResponse(task)), None)
               /\ ValidBlob(task.calls[2].reply)
                    => /\ Returned(task,
                             Nominal(FirstResponse(task).docker_content_digest.value,
                                     ParseFromRfc3339(BlobIn(task.calls[2].reply).created).v.local
                                        - ParseFromRfc3339(BlobIn(task.calls[2].reply).created).v.offset,
                                     BlobIn(task.calls[2].reply).architecture))
                       /\ BlobIn(task.calls[2].reply).created = "2024-05-01T11:30:00+02:00"
                            => task.result.v.v.created = 1714555800

C1_Witness ==
    \E t \in DOMAIN tasks :
        /\ ReturnedVariant(tasks[t], "Nominal")
        /\ tasks[t].result.v.v.digest = "sha256:aaa"
        /\ tasks[t].result.v.v.architecture = "arm64"
        /\ tasks[t].result.v.v.created = 1714555800

\* C2 as stated: whatever the content type, a response without the digest
\* header yields Error{errors[0].detail.Revision} when that path is a string
\* in the body, and a hard error otherwise.
C2_ErrorPayloadWhateverContentType ==
    \A t \in DOMAIN tasks :
        LET task == tasks[t]
        IN  (/\ task.pc = "done" /\ Answered(task)
             /\ ~FirstResponse(task).docker_content_digest.present)
            => IF HasRevision(FirstResponse(task))
               THEN Returned(task, Error(RevisionIn(FirstResponse(task))))
               ELSE HardError(task)

\* C2 amended: on the single-arch path, a response without the digest header
\* yields Error{errors[0].detail.Revision} when that path is a string in the
\* body, and a hard error otherwise.
C2_ErrorPayloadOnSinglePath ==
    \A t \in DOMAIN tasks :
        LET task == tasks[t]
        IN  (/\ task.pc = "done" /\ Answered(task)
             /\ ~ListContentType(FirstResponse(task))
             /\ ~FirstResponse(task).docker_content_digest.present)
            => /\ Len(task.calls) = 1
               /\ IF HasRevision(FirstResponse(task))
                  THEN Returned(task, Error(RevisionIn(FirstResponse(task))))
                  ELSE HardError(task)

C2_Witness ==
    \E t \in DOMAIN tasks :
        /\ Answered(tasks[t])
        /\ ~ListContentType(FirstResponse(tasks[t]))
        /\ ~FirstResponse(tasks[t]).docker_content_digest.present
        /\ HasRevision(FirstResponse(tasks[t]))
        /\ Len(Member(FirstResponse(tasks[t]).body.json, "errors").items) = 2
        /\ Returned(tasks[t], Error("rev-1"))

\* C3: on the multi-arch path a response without the digest header is a hard
\* error: no variant is returned, the body is not read, no second request is
\* made.
C3_MultiArchNeedsDigestHeader ==
    \A t \in DOMAIN tasks :
        LET task == tasks[t]
        IN  (/\ Answered(task)
             /\ ListContentType(FirstResponse(task))
             /\ ~FirstResponse(task).docker_content_digest.present)
            => /\ HardError(task)
               /\ Len(task.calls) = 1
               /\ ~task.calls[1].body_read

C3_Witness ==
    \E t \in DOMAIN tasks :
        /\ Answered(tasks[t])
        /\ ListContentType(FirstResponse(tasks[t]))
        /\ ~FirstResponse(tasks[t]).docker_content_digest.present
        /\ HasRevision(FirstResponse(tasks[t]))
        /\ HardError(tasks[t])

\* C4: when the manifest list holds a linux/amd64 entry, the manifest
\* requested for created is that of the first such entry, wherever it stands.
C4_Amd64IsRepresentative ==
    \A t \in DOMAIN tasks :
        LET task == tasks[t]
        IN  (/\ HasList(task)
             /\ task.pc \in {"created_blob", "done"}
             /\ \E i \in 1..Len(ListOf(task)) : IsAmd64Entry(ListOf(task)[i]))
            => /\ Len(task.calls) >= 2
               /\ \E i \in 1..Len(ListOf(task)) :
                     /\ IsAmd64Entry(ListOf(task)[i])
                     /\ \A k \in 1..(i - 1) : ~IsAmd64Entry(ListOf(task)[k])
                     /\ task.calls[2].request =
                           Request("GET", ManifestUrl(task.image, ListOf(task)[i].digest),
                                   Some(AcceptSingle))

C4_Witness ==
    \E t \in DOMAIN tasks :
        /\ HasList(tasks[t])
        /\ Len(tasks[t].calls) >= 2
        /\ Len(ListOf(tasks[t])) = 3
        /\ RealPlatform(ListOf(tasks[t])[1]) /\ ~IsAmd64Entry(ListOf(tasks[t])[1])
        /\ ~HasPlatform(ListOf(tasks[t])[2])
        /\ IsAmd64Entry(ListOf(tasks[t])[3])
        /\ tasks[t].calls[2].request.url = ManifestUrl(tasks[t].image, "sha256:m3")

\* C5: the architectures of the MultiArch returned for a non-empty list are
\* the texts os/architecture[/variant] of the entries with a real platform,
\* in list order, one per such entry; the other entries contribute nothing.
C5_ArchitecturesAreRealPlatforms ==
    \A t \in DOMAIN tasks :
        LET task == tasks[t]
        IN  (HasList(task) /\ task.pc = "done")
            => /\ ReturnedVariant(task, "MultiArch")
               /\ LET real == SelectSeq(ListOf(task), RealPlatform)
                  IN  task.result.v.v.architectures =
                          [i \in 1..Len(real) |-> PlatformText(real[i])]

C5_Witness ==
    \E t \in DOMAIN tasks :
        /\ HasList(tasks[t])
        /\ ReturnedVariant(tasks[t], "MultiArch")
        /\ Len(ListOf(tasks[t])) = 3
        /\ tasks[t].result.v.v.architectures = <<"linux/arm/v7", "unknown/arm64">>
        /\ ~RealPlatform(ListOf(tasks[t])[2])

\* C6 as stated: when the list holds an entry with a real platform, the entry
\* whose manifest is requested for created has a real platform.
C6_RepresentativeIsRealPlatform ==
    \A t \in DOMAIN tasks :
        LET task == tasks[t]
        IN  (/\ HasList(task)
             /\ Len(task.calls) >= 2
             /\ \E i \in 1..Len(ListOf(task)) : RealPlatform(ListOf(task)[i]))
            => \A i \in FetchedEntries(task) : RealPlatform(ListOf(task)[i])

\* C7: with the digest header and a non-empty list, manifest() returns
\* MultiArch with the header's digest and the architectures of the list
\* whatever the nested lookup does, and created is absent whenever the lookup
\* failed: the manifest request failed, its body is no JSON or has no string
\* config.digest, or the blob request failed, does not decode or has a
\* created that is not RFC 3339.
C7_CreatedLookupIsBestEffort ==
    \A t \in DOMAIN tasks :
        LET task == tasks[t]
        IN  (HasList(task) /\ task.pc = "done")
            => /\ ReturnedVariant(task, "MultiArch")
               /\ CarriesDigest(FirstResponse(task))
               /\ task.result.v.v.digest = FirstResponse(task).docker_content_digest.value
               /\ task.result.v.v.architectures = task.architectures
               /\ Len(task.calls) \in {2, 3}
               /\ (\/ ~task.calls[2].reply.ok
                   \/ ~HasConfigDigest(task.calls[2].reply.v)
                   \/ ~ValidBlob(task.calls[Len(task.calls)].reply))
                    => task.result.v.v.created = None
               /\ (Len(task.calls) = 3 /\ ValidBlob(task.calls[3].reply))
                    => task.result.v.v.created.some

C7_Witness ==
    \E t \in DOMAIN tasks :
        /\ HasList(tasks[t])
        /\ Len(tasks[t].calls) = 3
        /\ tasks[t].calls[3].reply.ok
        /\ tasks[t].calls[3].reply.v.status = 404
        /\ Returned(tasks[t], MultiArch("sha256:aaa", <<"linux/arm64">>, None))

\* C8: a multi-arch response with the digest header and an empty manifests
\* array yields Error with the header's digest, after the one request.
C8_EmptyListIsError ==
    \A t \in DOMAIN tasks :
        LET task == tasks[t]
        IN  (/\ task.pc # "multi" /\ Answered(task)
             /\ ListContentType(FirstResponse(task))
             /\ CarriesDigest(FirstResponse(task))
             /\ FirstResponse(task).body.kind = "json"
             /\ Member(FirstResponse(task).body.json, "manifests") = JArr(<<>>))
            => /\ Returned(task, Error(FirstResponse(task).docker_content_digest.value))
               /\ Len(task.calls) = 1

C8_Witness ==
    \E t \in DOMAIN tasks :
        /\ Answered(tasks[t])
        /\ ListContentType(FirstResponse(tasks[t]))
        /\ FirstResponse(tasks[t]).body.kind = "json"
        /\ Member(FirstResponse(tasks[t]).body.json, "manifests") = JArr(<<>>)
        /\ Returned(tasks[t], Error("sha256:aaa"))


----------------------------------------------------------------------------
(* The page of GET /{image}, read without the operators of the service.   *)

\* the tag list has been fetched and into_paginated has been called on it
Paged == req.pc # "tags" /\ req.tags.some

\* the page size of the query, 15 when the query has none
QuerySize == IF req.query.size.some THEN req.query.size.v ELSE Usize(15)

\* the page index of the query, 0 when the query has none
QueryPage == IF req.query.page.some THEN req.query.page.v ELSE Usize(0)

\* size > 0 and page * size < len, the product taken in the naturals: a
\* product of positive factors is below len only when both factors are
PageInRange(len) ==
    /\ QuerySize # Usize(0)
    /\ \/ QueryPage = Usize(0) /\ len > 0
       \/ /\ UsizeLess(QueryPage, Usize(len))
          /\ UsizeLess(QuerySize, Usize(len))
          /\ ToInt(QueryPage) * ToInt(QuerySize) < len

\* page * size, for a page in range
PageStart == IF QueryPage = Usize(0) THEN 0 ELSE ToInt(QueryPage) * ToInt(QuerySize)

\* min(page * size + size, len), for a page in range
PageEnd(len) ==
    IF UsizeLess(QuerySize, Usize(len - PageStart))
    THEN PageStart + ToInt(QuerySize)
    ELSE len

\* C9: once the tag list is fetched, into_paginated succeeds exactly when
\* size > 0 and page * size < len(tags); the page is then
\* tags[page*size .. min(page*size + size, len)] in list order, with
\* total_element_count = len, and exactly the tags of that slice are
\* resolved; in every other case the request ends in an error, with no panic
\* and no manifest resolved.
C9_PaginationOnRawTagList ==
    Paged =>
        LET tags == req.tags.v
        IN  IF PageInRange(Len(tags))
            THEN /\ req.pc \in {"resolving", "done"}
                 /\ req.paginated.some
                 /\ req.paginated.v.data = SubSeq(tags, PageStart + 1, PageEnd(Len(tags)))
                 /\ req.paginated.v.total_element_count = Usize(Len(tags))
                 /\ Len(tasks) = Len(req.paginated.v.data)
                 /\ \A i \in 1..Len(tasks) : tasks[i].reference = req.paginated.v.data[i]
            ELSE /\ req.pc = "done"
                 /\ ~req.result.v.ok
                 /\ ~req.paginated.some
                 /\ tasks = <<>>

\* get_image_info returned a page
PageBuilt == req.pc = "done" /\ req.result.v.ok

Rows == req.result.v.v.tags.data

\* the created of a manifest: Error and MultiArch without created have none
ManifestCreated(m) ==
    IF m.variant = "Nominal" THEN Some(m.created)
    ELSE IF m.variant = "MultiArch" THEN m.created
    ELSE None

\* C10: after get_image_info succeeds, the rows are in descending order of
\* created, every row without created comes after every row with one, and
\* the rows are a permutation of the resolved slice: each tag of the slice
\* is one row, with the digest and the created of its manifest.
C10_SortedByCreatedDescending ==
    PageBuilt =>
        /\ \A i, j \in 1..Len(Rows) :
              (i < j /\ Rows[j].created.some) =>
                  /\ Rows[i].created.some
                  /\ Rows[i].created.v >= Rows[j].created.v
        /\ Len(Rows) = Len(req.paginated.v.data)
        /\ \E p \in [1..Len(Rows) -> 1..Len(Rows)] :
              /\ \A i, j \in 1..Len(Rows) : p[i] = p[j] => i = j
              /\ \A i \in 1..Len(Rows) :
                    /\ Rows[p[i]].name = req.paginated.v.data[i]
                    /\ Rows[p[i]].digest = tasks[i].result.v.v.digest
                    /\ Rows[p[i]].created = ManifestCreated(tasks[i].result.v.v)

\* a page whose second tag is the first row, and whose last row has no created
C10_Witness ==
    /\ PageBuilt
    /\ Len(Rows) >= 2
    /\ Rows[1].name = req.paginated.v.data[2]
    /\ Rows[1].created.some
    /\ ~Rows[Len(Rows)].created.some

----------------------------------------------------------------------------

\* every resolution of the page has completed and get_image_info has returned
PageJoined == req.pc = "done" /\ req.paginated.some

\* C11: when the resolution of some tag of the page ends in a hard error,
\* get_image_info returns an error whatever the other resolutions returned,
\* and the index handler answers with a redirect to "/"; a rendered page
\* holds one row for every tag of the slice.
C11_HardErrorFailsThePage ==
    PageJoined =>
        /\ (\E t \in DOMAIN tasks : HardError(tasks[t])) =>
              /\ ~req.result.v.ok
              /\ req.response.v = [kind |-> "redirect", to |-> "/"]
        /\ req.response.v.kind = "markup" =>
              /\ req.result.v.ok
              /\ \A t \in DOMAIN tasks : ~HardError(tasks[t])
              /\ Len(req.response.v.info.tags.data) = Len(req.paginated.v.data)

\* a page of two tags, one resolved to a TagManifest and one failed
C11_Witness ==
    /\ PageJoined
    /\ req.response.v.kind = "redirect"
    /\ \E t, u \in DOMAIN tasks :
          /\ HardError(tasks[t])
          /\ tasks[u].result.v.ok

\* the row of the page for the i-th tag of the slice
RowOf(i) == CHOOSE row \in {Rows[k] : k \in 1..Len(Rows)} : row.name = req.paginated.v.data[i]

\* C12: when every tag of the slice resolves to some TagManifest variant,
\* get_image_info succeeds with exactly one Tag per tag name of the slice; the
\* Tag of an Error variant has error = true, the diagnostic string as digest
\* and no created, created_since or architecture; the Tags of Nominal and
\* MultiArch have error = false.
C12_ErrorVariantIsARow ==
    (PageJoined /\ \A t \in DOMAIN tasks : tasks[t].result.v.ok) =>
        /\ req.result.v.ok
        /\ Len(Rows) = Len(tasks)
        /\ \A i \in DOMAIN tasks :
              /\ Cardinality({k \in 1..Len(Rows) : Rows[k].name = tasks[i].reference}) = 1
              /\ IF tasks[i].result.v.v.variant = "Error"
                 THEN RowOf(i) = [name |-> tasks[i].reference,
                                  digest |-> tasks[i].result.v.v.digest,
                                  error |-> TRUE, architecture |-> None,
                                  created |-> None, created_since |-> None]
                 ELSE ~RowOf(i).error

\* a page with the row of an Error variant and the row of a Nominal
C12_Witness ==
    /\ PageBuilt
    /\ \E t, u \in DOMAIN tasks :
          /\ ReturnedVariant(tasks[t], "Error")
          /\ ReturnedVariant(tasks[u], "Nominal")
          /\ RowOf(t).error
          /\ ~RowOf(u).error

----------------------------------------------------------------------------
(* The requests to the routes, read without the operators of the handlers. *)

\* the request was to the route and has been answered
Served(route) == req.route = route /\ req.pc = "done"

\* the DELETE of the manifest digest of image
IsDelete(call, image, digest) ==
    /\ call.request.method = "DELETE"
    /\ call.request.url = "https://registry.test/v2/" \o image \o "/manifests/" \o digest

\* the call completed with a 2xx status
Completed2xx(call) == call.reply.ok /\ call.reply.v.status \in 200..299

\* C13: delete_tag(image, digest) issues exactly one DELETE
\* {image}/manifests/{digest} and does not retry it; it returns success
\* exactly when the request completes with a 2xx status, and an error on a
\* transport failure and on any other status.
C13_DeleteTagSucceedsOn2xxOnly ==
    /\ Served(RouteDeleteTag) =>
          /\ Len(req.calls) = 1
          /\ IsDelete(req.calls[1], req.image, req.digest)
          /\ req.result.v.ok <=> Completed2xx(req.calls[1])
    /\ Served(RouteDeleteAll) =>
          \A i \in 1..Len(req.calls) :
              req.calls[i].request.method = "DELETE" =>
                  /\ \A k \in 1..Len(req.calls) :
                        req.calls[k].request = req.calls[i].request => k = i
                  /\ ~Completed2xx(req.calls[i]) =>
                        i = Len(req.calls) /\ ~req.result.v.ok

ValidCookie ==
    /\ req.cookie.some
    /\ req.cookie.v = HashCredentials(GetCredentials.username, GetCredentials.password)

\* some registry call has been issued for the request
RegistryCalled ==
    \/ req.calls # <<>>
    \/ \E t \in DOMAIN tasks : tasks[t].calls # <<>>

\* C15: on GET /, GET /{image}, POST /{image}/delete and
\* POST /{image}/delete/{digest} no registry call is issued unless the
\* request carries an auth_token cookie equal to the hash of the configured
\* credentials; a request without a valid cookie is redirected to the login
\* page.
C15_NoRegistryCallWithoutValidCookie ==
    /\ RegistryCalled => ValidCookie
    /\ (req.pc = "done" /\ ~ValidCookie) =>
          /\ req.response.v.kind = "redirect"
          /\ req.response.v.to =
                "/auth/login?from=" \o UriPath(req.route, req.image, req.digest)

----------------------------------------------------------------------------
(* C16..C20: Client::manifest, under SpecResolve                           *)

\* the task is done, on the single-arch path, with the digest header
SinglePathWithDigest(task) ==
    /\ task.pc = "done" /\ Answered(task)
    /\ CarriesDigest(FirstResponse(task))
    /\ ~ListContentType(FirstResponse(task))

\* C16: on the single-arch path with the digest header, a missing or
\* non-string config.digest, a failed config blob request, a blob that does
\* not decode with architecture and created, and a created that is not
\* RFC 3339 each make manifest() return a hard error: neither a Nominal nor
\* the Error variant.
C16_SinglePathFailuresPropagate ==
    \A t \in DOMAIN tasks :
        LET task == tasks[t]
        IN  SinglePathWithDigest(task) =>
                /\ ~HasConfigDigest(FirstResponse(task)) =>
                      HardError(task) /\ Len(task.calls) = 1
                /\ (HasConfigDigest(FirstResponse(task)) /\ ~ValidBlob(task.calls[2].reply)) =>
                      HardError(task)
                /\ task.result.v.ok => task.result.v.v.variant = "Nominal"

\* a blob that decodes, with a created that is not RFC 3339, and the hard error
C16_Witness ==
    \E t \in DOMAIN tasks :
        /\ SinglePathWithDigest(tasks[t])
        /\ HasConfigDigest(FirstResponse(tasks[t]))
        /\ tasks[t].calls[2].reply.ok
        /\ tasks[t].calls[2].reply.v.body.kind = "json"
        /\ DecodeManifestBlob(tasks[t].calls[2].reply.v.body.json).ok
        /\ ~ValidBlob(tasks[t].calls[2].reply)
        /\ HardError(tasks[t])

\* the URL of a blob of the image
BlobUrlOf(task, digest) ==
    "https://registry.test/v2/" \o task.image \o "/blobs/" \o digest

\* the body is a JSON object whose manifests member is an array
HasManifestsArray(resp) ==
    resp.body.kind = "json" /\ Member(resp.body.json, "manifests").kind = "array"

\* the digests of the entries of the manifest list of the response
ListDigests(resp) ==
    {Member(Member(resp.body.json, "manifests").items[i], "digest").s :
        i \in {k \in 1..Len(Member(resp.body.json, "manifests").items) :
                Member(Member(resp.body.json, "manifests").items[k], "digest").kind = "string"}}

\* C17: within one resolution a call is issued only when every earlier call
\* has been answered and its body read, and never after a failed call; the
\* blob request carries the config digest of the manifest response before it,
\* the representative manifest request a digest of the manifest list response;
\* there are at most 2 calls on the single-arch path (1 without the digest
\* header) and at most 3 on the multi-arch path (1 for an empty list).
C17_CallsAreSequentialAndDependent ==
    \A t \in DOMAIN tasks :
        LET task == tasks[t]
            n == Len(task.calls)
        IN  /\ n <= 3
            /\ \A i \in 1..(n - 1) : task.calls[i].reply.ok /\ task.calls[i].body_read
            /\ (n >= 1 /\ ~Answered(task)) => n = 1
            /\ (n >= 1 /\ Answered(task) /\ ~ListContentType(FirstResponse(task))) =>
                  /\ n <= 2
                  /\ ~CarriesDigest(FirstResponse(task)) => n = 1
                  /\ n = 2 =>
                        /\ HasConfigDigest(FirstResponse(task))
                        /\ task.calls[2].request.url =
                              BlobUrlOf(task, ConfigDigestIn(FirstResponse(task)))
            /\ (n >= 1 /\ Answered(task) /\ ListContentType(FirstResponse(task))) =>
                  /\ (HasManifestsArray(FirstResponse(task))
                        /\ Member(FirstResponse(task).body.json, "manifests").items = <<>>)
                        => n = 1
                  /\ n >= 2 =>
                        /\ HasManifestsArray(FirstResponse(task))
                        /\ \E digest \in ListDigests(FirstResponse(task)) :
                              task.calls[2].request.url =
                                  "https://registry.test/v2/" \o task.image \o "/manifests/"
                                      \o digest
                  /\ n = 3 =>
                        /\ HasConfigDigest(task.calls[2].reply.v)
                        /\ task.calls[3].request.url =
                              BlobUrlOf(task, ConfigDigestIn(task.calls[2].reply.v))

\* a multi-arch resolution that made its three calls
C17_Witness ==
    \E t \in DOMAIN tasks :
        /\ ReturnedVariant(tasks[t], "MultiArch")
        /\ Len(tasks[t].calls) = 3
        /\ tasks[t].result.v.v.created.some

----------------------------------------------------------------------------
(* C18: the concurrent resolutions of a page, under SpecPage               *)

\* the task is suspended on the single-arch path
OnSinglePath(task) == task.pc \in {"single", "single_blob"}

\* the task is suspended on the multi-arch path
OnMultiPath(task) == task.pc \in {"multi", "created_manifest", "created_blob"}

\* C19: the multi-arch path is taken exactly when the content type contains
\* "manifest.list" or "image.index"; in every other case, an absent or
\* non-text content type included, the single-arch path is taken, whether or
\* not the response carries the digest header.  A finished resolution shows
\* its path by what it returned: MultiArch, or Error with the header's digest,
\* or an error with the body unread, on the multi-arch path only; Nominal on
\* the single-arch path only, where the body is always read.
C19_DispatchByContentTypeOnly ==
    \A t \in DOMAIN tasks :
        LET task == tasks[t]
        IN  Answered(task) =>
                IF ListContentType(FirstResponse(task))
                THEN /\ ~OnSinglePath(task)
                     /\ task.pc # "start"
                     /\ task.pc = "done" =>
                           /\ ~ReturnedVariant(task, "Nominal")
                           /\ ~CarriesDigest(FirstResponse(task)) =>
                                 HardError(task) /\ ~task.calls[1].body_read
                ELSE /\ ~OnMultiPath(task)
                     /\ task.pc # "start"
                     /\ task.pc = "done" =>
                           /\ ~ReturnedVariant(task, "MultiArch")
                           /\ task.calls[1].body_read

\* a response without a content type, with the digest header, on the
\* single-arch path
C19_Witness ==
    \E t \in DOMAIN tasks :
        /\ Answered(tasks[t])
        /\ ~FirstResponse(tasks[t]).content_type.present
        /\ CarriesDigest(FirstResponse(tasks[t]))
        /\ OnSinglePath(tasks[t])

\* the entry the priority names: the first linux/amd64 entry, else the first
\* entry with a platform, else the first entry
PriorityEntry(list) ==
    IF \E i \in 1..Len(list) : IsAmd64Entry(list[i])
    THEN CHOOSE i \in 1..Len(list) :
            IsAmd64Entry(list[i]) /\ \A k \in 1..(i - 1) : ~IsAmd64Entry(list[k])
    ELSE IF \E i \in 1..Len(list) : list[i].platform.some
    THEN CHOOSE i \in 1..Len(list) :
            list[i].platform.some /\ \A k \in 1..(i - 1) : ~list[k].platform.some
    ELSE 1

\* C20 as stated: for a non-empty list the representative is the first
\* linux/amd64 entry, else the first entry with any platform, else the first
\* entry; the result is MultiArch; and a list whose entries all lack a real
\* platform yields an empty architecture list with the first entry as
\* representative.
C20_RepresentativeByPriority ==
    \A t \in DOMAIN tasks :
        LET task == tasks[t]
        IN  HasList(task) =>
                /\ Len(task.calls) >= 2 =>
                      /\ FetchedEntries(task) = {PriorityEntry(ListOf(task))}
                      /\ (\A i \in 1..Len(ListOf(task)) : ~RealPlatform(ListOf(task)[i]))
                            => FetchedEntries(task) = {1}
                /\ task.pc = "done" =>
                      /\ ReturnedVariant(task, "MultiArch")
                      /\ (\A i \in 1..Len(ListOf(task)) : ~RealPlatform(ListOf(task)[i]))
                            => task.result.v.v.architectures = <<>>

\* the place of the row's tag in the slice
PlaceInSlice(row) ==
    CHOOSE i \in 1..Len(req.paginated.v.data) : req.paginated.v.data[i] = row.name

\* what the registry answered the task, call after call
RepliesOf(task) == [i \in 1..Len(task.calls) |-> task.calls[i].reply]

\* row a comes before row b: a later created, no created last, and for equal
\* created the order of the tag list
ComesBefore(a, b) ==
    \/ a.created.some /\ ~b.created.some
    \/ a.created.some /\ b.created.some /\ a.created.v > b.created.v
    \/ a.created = b.created /\ PlaceInSlice(a) < PlaceInSlice(b)

\* the built page is fixed by the answers of the registry: a resolution's
\* result by its own answers, a row by the resolution of its tag, the order
\* of the rows by created and the tag list
PageFixedByAnswers ==
    /\ \A t, u \in DOMAIN tasks :
          (tasks[t].pc = "done" /\ tasks[u].pc = "done"
              /\ RepliesOf(tasks[t]) = RepliesOf(tasks[u]))
              => tasks[t].result = tasks[u].result
    /\ PageBuilt =>
          /\ Len(Rows) = Len(tasks)
          /\ \A i, j \in 1..Len(Rows) : i < j => ComesBefore(Rows[i], Rows[j])
          /\ \A i \in 1..Len(Rows) :
                LET m == tasks[PlaceInSlice(Rows[i])].result.v.v
                IN  /\ Rows[i].digest = m.digest
                    /\ Rows[i].created = ManifestCreated(m)
                    /\ Rows[i].error = (m.variant = "Error")

\* a step of one resolution changes that resolution only
StepsAreLocal ==
    /\ DOMAIN tasks' = DOMAIN tasks =>
          \A t, u \in DOMAIN tasks :
              (tasks'[t] # tasks[t] /\ u # t) => tasks'[u] = tasks[u]
    /\ (tasks' # tasks /\ tasks # <<>>) => req' = req

\* C18: one resolution per tag of the slice runs concurrently; whatever the
\* interleaving and the completion order, the page is the one fixed by the
\* answers of the registry: results joined in tag order, sorted by created
\* with a stable sort, so rows with equal created (or none) keep the order of
\* the tag list; a step of a resolution changes no other resolution.
C18_PageIndependentOfInterleaving ==
    []PageFixedByAnswers /\ [][StepsAreLocal]_vars

\* a page of two rows with the same created, in the order of the tag list
C18_Witness ==
    /\ PageBuilt
    /\ Len(Rows) >= 2
    /\ Rows[1].created = Rows[2].created
    /\ Rows[1].created.some
    /\ Rows[1].name = req.paginated.v.data[1]
    /\ Rows[2].name = req.paginated.v.data[2]

----------------------------------------------------------------------------
(* C21: an image without tags, under SpecPage                              *)

\* the registry answered the tag list request with a JSON object whose tags
\* member is missing, null or an empty array
NoTagsAnswered ==
    /\ req.calls # <<>>
    /\ req.calls[1].reply.ok
    /\ req.calls[1].reply.v.body.kind = "json"
    /\ req.calls[1].reply.v.body.json.kind = "object"
    /\ \/ Member(req.calls[1].reply.v.body.json, "tags").kind = "null"
       \/ /\ Member(req.calls[1].reply.v.body.json, "tags").kind = "array"
          /\ Member(req.calls[1].reply.v.body.json, "tags").items = <<>>

\* the query asks for the first page, with a size that is not 0
FirstPageAsked ==
    /\ req.query.page.some => req.query.page.v = Usize(0)
    /\ req.query.size.some => req.query.size.v # Usize(0)

\* C21 as stated: for an image whose tag list is empty or absent, the absent
\* tags are taken as the empty list and get_image_info succeeds with an empty
\* page, which the index handler renders; it does not return an error and
\* redirect to "/".
C21_EmptyTagListIsAnEmptyPage ==
    (NoTagsAnswered /\ FirstPageAsked /\ req.pc # "tags") =>
        /\ req.tags = Some(<<>>)
        /\ req.pc = "done"
        /\ req.result.v.ok
        /\ req.result.v.v.tags.data = <<>>
        /\ req.response.v.kind = "markup"

----------------------------------------------------------------------------
(* C22: delete_all_image_tags, under SpecRoutes                            *)

\* the DELETE calls of the request, in the order they were issued
Deletes == SelectSeq(req.calls, LAMBDA call : call.request.method = "DELETE")

\* the digest of the TagManifest the i-th resolution returned, whatever its
\* variant
ResolvedDigest(i) == tasks[i].result.v.v.digest

\* the tags whose digest no earlier tag resolved to
FirstOccurrences ==
    {i \in DOMAIN tasks : \A k \in 1..(i - 1) : ResolvedDigest(k) # ResolvedDigest(i)}

\* the n-th of them, in tag order
NthFirstOccurrence(n) ==
    CHOOSE i \in FirstOccurrences : Cardinality({k \in FirstOccurrences : k <= i}) = n

\* delete_tag returned an error for the call: the transport failed or the
\* status is an error status
DeleteFailed(call) == ~call.reply.ok \/ call.reply.v.status \in 400..599

\* the number of tags the registry listed for the image
TagsListed == Len(Member(req.calls[1].reply.v.body.json, "tags").items)

\* C22: delete_all_image_tags issues no DELETE until the manifest of every tag
\* of the image is resolved, and none if a resolution ended in a hard error;
\* the DELETEs are issued one after another, the n-th for the n-th distinct
\* digest in first-occurrence tag order, the digest of an Error variant
\* included; a DELETE that fails is the last one and fails the service; when
\* none fails every distinct digest is deleted.
C22_DeleteAllAfterAllResolved ==
    req.route = RouteDeleteAll =>
        /\ Deletes # <<>> =>
              /\ Len(tasks) = TagsListed
              /\ \A t \in DOMAIN tasks : tasks[t].pc = "done" /\ tasks[t].result.v.ok
              /\ Len(Deletes) <= Cardinality(FirstOccurrences)
              /\ \A n \in 1..Len(Deletes) :
                    /\ IsDelete(Deletes[n], req.image, ResolvedDigest(NthFirstOccurrence(n)))
                    /\ DeleteFailed(Deletes[n]) =>
                          /\ n = Len(Deletes)
                          /\ req.pc = "done" /\ ~req.result.v.ok
        /\ (\E t \in DOMAIN tasks : HardError(tasks[t])) => Deletes = <<>>
        /\ (/\ req.pc = "done"
            /\ tasks # <<>>
            /\ \A t \in DOMAIN tasks : tasks[t].result.v.ok
            /\ \A n \in 1..Len(Deletes) : ~DeleteFailed(Deletes[n])) =>
              /\ Len(Deletes) = Cardinality(FirstOccurrences)
              /\ req.result.v.ok

\* two tags, the first resolved to an Error variant: its diagnostic string is
\* deleted first, and the failed second DELETE ends the service
C22_Witness ==
    /\ Served(RouteDeleteAll)
    /\ Len(tasks) = 2
    /\ ReturnedVariant(tasks[1], "Error")
    /\ ReturnedVariant(tasks[2], "MultiArch")
    /\ Len(Deletes) = 2
    /\ IsDelete(Deletes[1], req.image, "sha256:bad")
    /\ IsDelete(Deletes[2], req.image, "sha256:bbb")
    /\ DeleteFailed(Deletes[2])
    /\ ~req.result.v.ok

----------------------------------------------------------------------------
(* C23: the auth_token cookie of one browser over its requests             *)

\* the hash of the configured credentials
ConfiguredHash == HashCredentials(GetCredentials.username, GetCredentials.password)

\* the exchange is an authenticate call with the configured credentials
RightCredentials(exchange) ==
    /\ exchange.op = "authenticate"
    /\ exchange.username = GetCredentials.username
    /\ exchange.password = GetCredentials.password

\* the Authenticated check let the request through to its handler
Accepted(exchange) ==
    /\ exchange.op = "protected"
    /\ exchange.pc = HandlerEntry(exchange.route)
    /\ exchange.response = None

\* the request was answered with the redirection to the login page
Rejected(exchange) ==
    /\ exchange.op = "protected"
    /\ exchange.pc = "done"
    /\ exchange.response.some
    /\ exchange.response.v.kind = "redirect"
    /\ exchange.response.v.to =
          "/auth/login?from=" \o UriPath(exchange.route, exchange.image, exchange.digest)

\* the response tells the browser to drop the auth_token cookie
SendsRemoval(exchange) ==
    /\ exchange.response.some
    /\ exchange.response.v.kind = "redirect"
    /\ \E i \in 1..Len(exchange.response.v.jar.delta) :
          /\ exchange.response.v.jar.delta[i].name = AuthTokenCookieName
          /\ exchange.response.v.jar.delta[i].removal

\* what holds of every exchange, between the cookie sent and the cookie kept
ExchangeKeepsJar ==
    /\ req.op = "authenticate" =>
          /\ req.browser # req.cookie =>
                RightCredentials(req) /\ req.browser = Some(ConfiguredHash)
          /\ ~RightCredentials(req) =>
                /\ req.browser = req.cookie
                /\ req.response.v.kind = "redirect" => req.response.v.jar.delta = <<>>
    /\ req.op = "logout" => req.browser = None
    /\ req.op = "protected" =>
          /\ Accepted(req) <=> req.cookie = Some(ConfiguredHash)
          /\ Accepted(req) => req.browser = req.cookie
          /\ ~Accepted(req) =>
                /\ Rejected(req)
                /\ req.browser = None
                /\ SendsRemoval(req) <=> req.cookie.some

\* what holds of every step, between the cookie kept before and after
StepKeepsJar ==
    /\ (req'.browser.some /\ req'.browser # req.browser) =>
          /\ RightCredentials(req')
          /\ req'.browser = Some(ConfiguredHash)
    /\ (req.op = "logout" /\ req'.op = "protected") => Rejected(req')

\* C23: over any sequence of authenticate, logout and protected requests of
\* one browser, the auth_token cookie is set only by an authenticate call with
\* the configured username and password, to the hash of these; an authenticate
\* call with other credentials leaves the cookie as it was; after logout the
\* browser holds no cookie; a protected request is accepted exactly when its
\* cookie is the hash of the configured credentials, and is otherwise
\* redirected to /auth/login?from={path}, with a removal cookie exactly when
\* it carried a token; a protected request that follows logout is rejected
C23_CookieJarOverRequests == []ExchangeKeepsJar /\ [][StepKeepsJar]_vars

\* a protected request that follows a logout which removed the valid cookie,
\* and is redirected to the login page
C23_Witness ==
    /\ req.op = "protected"
    /\ req.previous = "logout"
    /\ req.cookie = None
    /\ Rejected(req)
    /\ req.browser = None

====
